---- MODULE Spec2Model ----
(***************************************************************************)
(* Log parsing and aggregation of the multicast/unicast performance        *)
(* scripts (compare_results.py, analyze_results.py).                        *)
(*                                                                          *)
(* Text is modelled at character level: a line is a sequence of            *)
(* one-character strings, so strip(), split(), the `in` substring test,    *)
(* re.match on the timestamp, float() and int() are computed as the code   *)
(* computes them.  Python floats are carried as exact numbers: a parsed    *)
(* float is an integer count of tenths (inputs carry at most one           *)
(* fractional digit), a quotient is a fraction [num, den].                 *)
(***************************************************************************)
EXTENDS Integers, Sequences, FiniteSets, TLC

VARIABLES
    fn,            \* the function that is running: "pidstat" | "network" |
                   \* "aggregate" | "improvement"
    lines,         \* f.readlines(): sequence of lines, each a sequence of characters
    i,             \* the line index of the scanning loop (0-based, as in the code)
    pc,            \* position: "outer" | "cpu" | "mem" | "net" (the scanning loops),
                   \* "start" (a function about to be applied), "done" | "raised"
    visits,        \* visits[k]: number of loop iterations that examined lines[k-1]
    cpu_index, tid_index, rss_index,
    if_index, rxpck_index, txpck_index, rxkb_index, txkb_index,
    stats,         \* the stats dict being filled and finally returned
    results_list,  \* aggregate_results: the per-run results
    aggregated,    \* aggregate_results: the value returned
    multicast_val, unicast_val,   \* calculate_improvement: the arguments
    improvement,   \* calculate_improvement: the value returned
    file_exists,   \* file_exists[f]: os.path.exists() of the log that parser f is given
    caller,        \* "none" (the function runs on its own) | "load_results"
    results,       \* load_results: the results dict, one entry per finished parser
    argv_len,      \* compare_results.main: len(sys.argv)
    glob_matches,  \* glob_matches[p]: sorted(glob.glob(pattern)) of pattern p, one
                   \* entry per match: is it a directory, and what load_results does on it
    multicast_results, unicast_results,
    multicast_agg, unicast_agg,
    improvements,  \* the dict returned by print_comparison
    summary,       \* summary[metric]: the status printed in the SUMMARY block
    printed,       \* the error messages printed
    exit_status,   \* "none" while running, else the status the process ended with
    called,        \* the calls of aggregate_results, print_comparison and
                   \* plot_comparison made so far, each with the length of its list
    run_stats,     \* analyze_results.main: which logs exist, and the statistics
                   \* the parsers returned for them
    report,        \* the text analyze_results.main printed (server_analysis.txt)
    metrics,       \* parse_server_analysis: the ServerMetrics returned
    folders,       \* server_analysis_aggregator.main: the entries of base_path
    pos,           \* the position of the loop that runs
    scenario_metrics, \* scenario name -> list of ServerMetrics
    number_of_clients,
    unicast_avg_cpu, unicast_avg_mem, unicast_avg_sent,
    multicast_avg_cpu, multicast_avg_mem, multicast_avg_sent,
    reported,      \* the scenarios printed, each with its iterations and averages
    errors,        \* the folders named in an "Error processing" line
    plots          \* the calls of plot_metrics_over_clients

vars == <<fn, lines, i, pc, visits, cpu_index, tid_index, rss_index,
          if_index, rxpck_index, txpck_index, rxkb_index, txkb_index, stats,
          results_list, aggregated, multicast_val, unicast_val, improvement,
          file_exists, caller, results,
          argv_len, glob_matches, multicast_results, unicast_results,
          multicast_agg, unicast_agg, improvements, summary, printed,
          exit_status, called, run_stats, report, metrics,
          folders, pos, scenario_metrics, number_of_clients,
          unicast_avg_cpu, unicast_avg_mem, unicast_avg_sent,
          multicast_avg_cpu, multicast_avg_mem, multicast_avg_sent,
          reported, errors, plots>>

idxPid == <<cpu_index, tid_index, rss_index>>
idxNet == <<if_index, rxpck_index, txpck_index, rxkb_index, txkb_index>>
logVars == <<lines, i, visits, idxPid, idxNet, stats>>
calcVars == <<results_list, aggregated, multicast_val, unicast_val, improvement>>
loadVars == <<file_exists, caller, results>>
mainVars == <<argv_len, glob_matches, multicast_results, unicast_results,
              multicast_agg, unicast_agg, improvements, summary, printed,
              exit_status, called>>
reportVars == <<run_stats, report, metrics>>
aggVars == <<folders, pos, scenario_metrics, number_of_clients,
             unicast_avg_cpu, unicast_avg_mem, unicast_avg_sent,
             multicast_avg_cpu, multicast_avg_mem, multicast_avg_sent,
             reported, errors, plots>>
driverVars == <<mainVars, reportVars, aggVars>>
otherVars == <<loadVars, driverVars>>

(***************************************************************************)
(* Bounds                                                                   *)
(***************************************************************************)
MaxLines == 3      \* longest log file explored
MaxVisits == 2     \* cap on re-examinations of one line (the loop counter is unbounded)
MaxRuns == 3       \* longest results_list explored
MaxMetric == 20    \* calculate_improvement arguments range over -MaxMetric..MaxMetric

(***************************************************************************)
(* Exact fractions                                                          *)
(***************************************************************************)
Rat(n, d) == [num |-> n, den |-> d]
RatInt(n) == Rat(n, 1)
RatNorm(r) == IF r.den < 0 THEN Rat(0 - r.num, 0 - r.den) ELSE r
RatEq(a, b) == a.num * b.den = b.num * a.den
RatLe(a, b) == RatNorm(a).num * RatNorm(b).den <= RatNorm(b).num * RatNorm(a).den
RatLt(a, b) == RatNorm(a).num * RatNorm(b).den < RatNorm(b).num * RatNorm(a).den

RECURSIVE SeqSum(_)
SeqSum(s) == IF s = <<>> THEN 0 ELSE Head(s) + SeqSum(Tail(s))

RECURSIVE SeqMax(_)
SeqMax(s) == IF Len(s) = 1 THEN s[1]
             ELSE LET m == SeqMax(Tail(s)) IN IF Head(s) >= m THEN Head(s) ELSE m

(***************************************************************************)
(* Python string operations on character sequences                          *)
(***************************************************************************)
Digits == {"0", "1", "2", "3", "4", "5", "6", "7", "8", "9"}

DigitVal(c) == CASE c = "0" -> 0 [] c = "1" -> 1 [] c = "2" -> 2 [] c = "3" -> 3
                 [] c = "4" -> 4 [] c = "5" -> 5 [] c = "6" -> 6 [] c = "7" -> 7
                 [] c = "8" -> 8 [] c = "9" -> 9

IsSpace(c) == c \in {" ", "\n", "\t"}

RECURSIVE LStrip(_)
LStrip(s) == IF s # <<>> /\ IsSpace(Head(s)) THEN LStrip(Tail(s)) ELSE s

RECURSIVE RStrip(_)
RStrip(s) == IF s # <<>> /\ IsSpace(s[Len(s)]) THEN RStrip(SubSeq(s, 1, Len(s) - 1)) ELSE s

\* str.strip()
Strip(s) == RStrip(LStrip(s))

RECURSIVE SplitAcc(_, _, _)
SplitAcc(s, cur, acc) ==
    IF s = <<>> THEN (IF cur = <<>> THEN acc ELSE Append(acc, cur))
    ELSE IF IsSpace(Head(s))
         THEN SplitAcc(Tail(s), <<>>, IF cur = <<>> THEN acc ELSE Append(acc, cur))
         ELSE SplitAcc(Tail(s), Append(cur, Head(s)), acc)

\* str.split() with no argument: the maximal runs of non-whitespace
Split(s) == SplitAcc(s, <<>>, <<>>)

\* `pat in s`
Contains(s, pat) ==
    \E k \in 1..(Len(s) - Len(pat) + 1) : SubSeq(s, k, k + Len(pat) - 1) = pat

\* re.match(r'(\d{2}:\d{2}:\d{2})\s*(AM|PM)?', line): the tail of the pattern
\* is optional, so the match succeeds iff the line begins with dd:dd:dd
TimestampMatch(s) ==
    /\ Len(s) >= 8
    /\ \A k \in {1, 2, 4, 5, 7, 8} : s[k] \in Digits
    /\ s[3] = ":" /\ s[6] = ":"

RECURSIVE DigitsVal(_)
DigitsVal(s) == IF s = <<>> THEN 0
                ELSE DigitsVal(SubSeq(s, 1, Len(s) - 1)) * 10 + DigitVal(s[Len(s)])

AllDigits(s) == \A k \in 1..Len(s) : s[k] \in Digits

Unsigned(tok) == IF tok # <<>> /\ Head(tok) \in {"-", "+"} THEN Tail(tok) ELSE tok
Sign(tok) == IF tok # <<>> /\ Head(tok) = "-" THEN 0 - 1 ELSE 1

\* int(tok): ok = FALSE stands for ValueError
ParseInt(tok) ==
    LET body == Unsigned(tok) IN
    IF body # <<>> /\ AllDigits(body)
    THEN [ok |-> TRUE, val |-> Sign(tok) * DigitsVal(body)]
    ELSE [ok |-> FALSE, val |-> 0]

DotPos(s) == IF \E k \in 1..Len(s) : s[k] = "."
             THEN CHOOSE k \in 1..Len(s) : s[k] = "." /\ \A m \in 1..(k - 1) : s[m] # "."
             ELSE 0

\* float(tok), the value in tenths; ok = FALSE stands for ValueError
ParseFloat(tok) ==
    LET body == Unsigned(tok)
        d    == DotPos(body)
        ip   == IF d = 0 THEN body ELSE SubSeq(body, 1, d - 1)
        fp   == IF d = 0 THEN <<>> ELSE SubSeq(body, d + 1, Len(body))
    IN IF AllDigits(ip) /\ AllDigits(fp) /\ (ip # <<>> \/ fp # <<>>) /\ Len(fp) <= 1
       THEN [ok |-> TRUE,
             val |-> Sign(tok) * (DigitsVal(ip) * 10 + DigitsVal(fp))]
       ELSE [ok |-> FALSE, val |-> 0]

\* seq[idx] with a 0-based, non-negative idx raises IndexError iff idx >= len(seq)
InRange(seq, idx) == idx < Len(seq)
At(seq, idx) == seq[idx + 1]

(***************************************************************************)
(* Words of the logs                                                        *)
(***************************************************************************)
wUID == <<"U", "I", "D">>
wPctCPU == <<"%", "C", "P", "U">>
wCPU == <<"C", "P", "U">>
wTGID == <<"T", "G", "I", "D">>
wTID == <<"T", "I", "D">>
wRSS == <<"R", "S", "S">>
wVSZ == <<"V", "S", "Z">>
wMinflt == <<"m", "i", "n", "f", "l", "t">>
wMinfltS == <<"m", "i", "n", "f", "l", "t", "/", "s">>
wLinux == <<"L", "i", "n", "u", "x">>
wIFACE == <<"I", "F", "A", "C", "E">>
wRxpck == <<"r", "x", "p", "c", "k", "/", "s">>
wTxpck == <<"t", "x", "p", "c", "k", "/", "s">>
wRxkB == <<"r", "x", "k", "B", "/", "s">>
wTxkB == <<"t", "x", "k", "B", "/", "s">>
wLo == <<"l", "o">>
wEth == <<"e", "t", "h", "0">>
wDash == <<"-">>
wUnknown == <<"u", "n", "k", "n", "o", "w", "n">>
wTime == <<"1", "2", ":", "0", "0", ":", "0", "1">>
wAM == <<"A", "M">>
wAverage == <<"A", "v", "e", "r", "a", "g", "e", ":">>
wCmd == <<"q">>
wX == <<"x">>

RECURSIVE JoinAcc(_)
JoinAcc(toks) == IF toks = <<>> THEN <<>>
                 ELSE IF Len(toks) = 1 THEN Head(toks)
                 ELSE Head(toks) \o <<" ">> \o JoinAcc(Tail(toks))

\* one line of readlines(): the words separated by blanks, newline-terminated
Line(toks) == JoinAcc(toks) \o <<"\n">>


(***************************************************************************)
(* Numbers as they appear in the logs                                       *)
(***************************************************************************)
n0 == <<"0">>
n7 == <<"7">>
n9 == <<"9">>
n100 == <<"1", "0", "0">>
n5000 == <<"5", "0", "0", "0">>
n6000 == <<"6", "0", "0", "0">>
n12_5 == <<"1", "2", ".", "5">>
n45_5 == <<"4", "5", ".", "5">>
n200_0 == <<"2", "0", "0", ".", "0">>
n200_1 == <<"2", "0", "0", ".", "1">>
nNeg0_1 == <<"-", "0", ".", "1">>
wAbc == <<"a", "b", "c">>
wPctUsr == <<"%", "u", "s", "r">>
wPctSystem == <<"%", "s", "y", "s", "t", "e", "m">>
wPctGuest == <<"%", "g", "u", "e", "s", "t">>
wPctWait == <<"%", "w", "a", "i", "t">>
wPctMEM == <<"%", "M", "E", "M">>
wMajfltS == <<"m", "a", "j", "f", "l", "t", "/", "s">>
wCommand == <<"C", "o", "m", "m", "a", "n", "d">>

(***************************************************************************)
(* pidstat log lines                                                        *)
(***************************************************************************)
CpuCols == <<wUID, wTGID, wTID, wPctUsr, wPctSystem, wPctGuest, wPctWait,
             wPctCPU, wCPU, wCommand>>
MemCols == <<wUID, wTGID, wTID, wMinfltS, wMajfltS, wVSZ, wRSS, wPctMEM, wCommand>>

CpuHeader == Line(<<wTime, wAM>> \o CpuCols)
CpuAverageHeader == Line(<<wAverage>> \o CpuCols)
MemHeader == Line(<<wTime, wAM>> \o MemCols)
MemAverageHeader == Line(<<wAverage>> \o MemCols)
BlankLine == <<"\n">>
BannerLine == Line(<<wLinux, n9, wX>>)
ShortRow == Line(<<wTime, wAM, n0, n7>>)

\* a row under CpuHeader: TID at field 4, %CPU at field 9
CpuRow(tid, cpu) == Line(<<wTime, wAM, n0, n7, tid, n0, n0, n0, n0, cpu, n0, wCmd>>)
\* a row under MemHeader: RSS at field 8
MemRow(rss) == Line(<<wTime, wAM, n0, n7, wDash, n0, n0, n9, rss, n0, wCmd>>)
\* a row under MemAverageHeader: RSS at field 7
MemAverageRow(rss) == Line(<<wAverage, n0, n7, wDash, n0, n0, n9, rss, n0, wCmd>>)

PidstatLines ==
    { CpuHeader, CpuAverageHeader, MemHeader, MemAverageHeader, BlankLine,
      BannerLine, ShortRow,
      CpuRow(n7, n45_5), CpuRow(wDash, n200_0), CpuRow(n7, n200_1),
      CpuRow(n9, nNeg0_1), CpuRow(n7, wAbc),
      MemRow(n5000), MemRow(n100), MemRow(n12_5), MemAverageRow(n6000) }

Files(menu) == UNION { [1..m -> menu] : m \in 0..MaxLines }

(***************************************************************************)
(* parse_pidstat_log                                                        *)
(***************************************************************************)
CpuMax == 200
RssMin == 100
MinCpuFields == 9
MinMemFields == 8
DefaultCpuIndex == 9
DefaultTidIndex == 4
DefaultRssIndex == 8

PidstatStats0 ==
    [cpu_values |-> <<>>, cpu_avg |-> RatInt(0), cpu_peak |-> 0,
     memory_values |-> <<>>, memory_avg |-> RatInt(0), memory_peak |-> 0,
     threads |-> <<>>]

\* the column search matching a token that contains, or is contained in, the name
LocateLastResembling(header_split, name, default) ==
    LET hits == { j \in 0..(Len(header_split) - 1) :
                    \/ Contains(At(header_split, j), name)
                    \/ Contains(name, At(header_split, j)) }
    IN IF hits = {} THEN default ELSE CHOOSE j \in hits : \A k \in hits : k <= j

\* for j in range(len(header_split)): if header_split[j] == name: index = j
\* (no break: the last match stays)
LocateLast(header_split, name, default) ==
    LET hits == { j \in 0..(Len(header_split) - 1) : At(header_split, j) = name }
    IN IF hits = {} THEN default ELSE CHOOSE j \in hits : \A k \in hits : k <= j

\* the same loop with a break: the first match stays
LocateFirst(header_split, name, default) ==
    LET hits == { j \in 0..(Len(header_split) - 1) : At(header_split, j) = name }
    IN IF hits = {} THEN default ELSE CHOOSE j \in hits : \A k \in hits : j <= k

\* timestamp_match and 'UID' in line and '%CPU' in line
IsCpuHeader(line) ==
    TimestampMatch(line) /\ Contains(line, wUID) /\ Contains(line, wPctCPU)

\* elif 'minflt/s' in line
IsMemHeader(line) == ~IsCpuHeader(line) /\ Contains(line, wMinfltS)

\* the terminator test without the banner
CpuSectionEndsNoBanner(data_line) ==
    data_line = <<>> \/ Contains(data_line, wUID)

\* not data_line or 'UID' in data_line or 'Linux' in data_line
CpuSectionEnds(data_line) ==
    data_line = <<>> \/ Contains(data_line, wUID) \/ Contains(data_line, wLinux)

\* not data_line or 'minflt' in data_line or 'Linux' in data_line
MemSectionEnds(data_line) ==
    data_line = <<>> \/ Contains(data_line, wMinflt) \/ Contains(data_line, wLinux)

\* the sanity check without its upper limit
CpuAcceptNoUpper(cpu) == 0 <= cpu

\* if 0 <= cpu <= 200 (cpu in tenths)
CpuAccept(cpu) == 0 <= cpu /\ cpu <= CpuMax * 10

\* the RSS check letting the limit itself through
RssAcceptInclusive(val) == val >= RssMin

\* if val > 100
RssAccept(val) == val > RssMin

\* the bookkeeping that keeps only the newest sample of a thread
AddThreadSampleOverwrites(threads, tid, cpu, parts) ==
    [t \in (DOMAIN threads) \cup {tid} |->
        IF t = tid
        THEN [cpu |-> <<cpu>>,
              name |-> IF Len(parts) > 9 THEN parts[Len(parts)] ELSE wUnknown,
              has_avg |-> FALSE, cpu_avg |-> RatInt(0), cpu_peak |-> 0]
        ELSE threads[t]]

\* stats['threads'][tid] bookkeeping of one accepted CPU sample
AddThreadSample(threads, tid, cpu, parts) ==
    IF tid \in DOMAIN threads
    THEN [threads EXCEPT ![tid].cpu = Append(@, cpu)]
    ELSE [t \in (DOMAIN threads) \cup {tid} |->
            IF t = tid
            THEN [cpu |-> <<cpu>>,
                  name |-> IF Len(parts) > 9 THEN parts[Len(parts)] ELSE wUnknown,
                  has_avg |-> FALSE, cpu_avg |-> RatInt(0), cpu_peak |-> 0]
            ELSE threads[t]]

\* the body of the CPU data loop for one row: stats after the row
CpuRowStats(st, data_line, cpuIdx, tidIdx) ==
    LET parts == Split(data_line) IN
    IF Len(parts) < MinCpuFields THEN st
    ELSE IF ~InRange(parts, cpuIdx) THEN st                  \* IndexError: pass
    ELSE LET f == ParseFloat(At(parts, cpuIdx)) IN
         IF ~f.ok THEN st                                    \* ValueError: pass
         ELSE IF ~CpuAccept(f.val) THEN st
         ELSE LET st1 == [st EXCEPT !.cpu_values = Append(@, f.val)] IN
              IF Len(parts) < 4 THEN st1
              ELSE IF ~InRange(parts, tidIdx) THEN st1       \* IndexError: pass
              ELSE IF At(parts, tidIdx) = wDash THEN st1
              ELSE [st1 EXCEPT !.threads =
                        AddThreadSample(@, At(parts, tidIdx), f.val, parts)]

\* int(parts[rss_index]) raises ValueError in the memory data loop: `continue`
MemRowContinues(data_line, rssIdx) ==
    LET parts == Split(data_line) IN
    /\ Len(parts) >= MinMemFields
    /\ InRange(parts, rssIdx)
    /\ ~ParseInt(At(parts, rssIdx)).ok

\* the body of the memory data loop for one row: stats after the row
MemRowStats(st, data_line, rssIdx) ==
    LET parts == Split(data_line) IN
    IF Len(parts) < MinMemFields THEN st
    ELSE IF ~InRange(parts, rssIdx) THEN st                  \* IndexError: pass
    ELSE LET v == ParseInt(At(parts, rssIdx)) IN
         IF v.ok /\ RssAccept(v.val)
         THEN [st EXCEPT !.memory_values = Append(@, v.val)]
         ELSE st

\* the average taken over one sample too many
AvgOffByOne(values) == Rat(SeqSum(values), Len(values) + 1)

\* sum(values) / len(values)
Avg(values) == Rat(SeqSum(values), Len(values))

\* "Calculate statistics" at the end of parse_pidstat_log
PidstatFinal(st) ==
    LET a == IF st.cpu_values # <<>>
             THEN [st EXCEPT !.cpu_avg = Avg(st.cpu_values),
                             !.cpu_peak = SeqMax(st.cpu_values)]
             ELSE st
        b == IF a.memory_values # <<>>
             THEN [a EXCEPT !.memory_avg = Avg(a.memory_values),
                            !.memory_peak = SeqMax(a.memory_values)]
             ELSE a
    IN [b EXCEPT !.threads =
           [t \in DOMAIN b.threads |->
              IF b.threads[t].cpu # <<>>
              THEN [b.threads[t] EXCEPT !.has_avg = TRUE,
                                        !.cpu_avg = Avg(b.threads[t].cpu),
                                        !.cpu_peak = SeqMax(b.threads[t].cpu)]
              ELSE b.threads[t]]]

\* the line the loop is looking at, stripped
CurLine == Strip(lines[i + 1])

\* one more loop iteration examines lines[i]
Examine == /\ i < Len(lines)
           /\ visits[i + 1] < MaxVisits
           /\ visits' = [visits EXCEPT ![i + 1] = @ + 1]

\* the variables of the functions that are not running
LogsIdle ==
    /\ lines = <<>> /\ i = 0 /\ visits = <<>>
    /\ cpu_index = "unbound" /\ tid_index = "unbound" /\ rss_index = "unbound"
    /\ if_index = "unbound" /\ rxpck_index = "unbound" /\ txpck_index = "unbound"
    /\ rxkb_index = "unbound" /\ txkb_index = "unbound"
    /\ stats = <<>>

CalcIdle ==
    /\ results_list = <<>> /\ aggregated = <<>>
    /\ multicast_val = 0 /\ unicast_val = 0 /\ improvement = RatInt(0)

Parsers == {"time", "pidstat", "network"}

\* a function applied on its own, to a log file that exists
LoadIdle ==
    /\ file_exists = [f \in Parsers |-> TRUE]
    /\ caller = "none"
    /\ results = <<>>

MainIdle ==
    /\ argv_len = 0 /\ glob_matches = <<>>
    /\ multicast_results = <<>> /\ unicast_results = <<>>
    /\ multicast_agg = <<>> /\ unicast_agg = <<>>
    /\ improvements = <<>> /\ summary = <<>> /\ printed = <<>>
    /\ exit_status = "none" /\ called = <<>>

ReportIdle == run_stats = <<>> /\ report = <<>> /\ metrics = <<>>

AggIdle ==
    /\ folders = <<>> /\ pos = 0 /\ scenario_metrics = <<>>
    /\ number_of_clients = <<>>
    /\ unicast_avg_cpu = <<>> /\ unicast_avg_mem = <<>> /\ unicast_avg_sent = <<>>
    /\ multicast_avg_cpu = <<>> /\ multicast_avg_mem = <<>>
    /\ multicast_avg_sent = <<>>
    /\ reported = <<>> /\ errors = <<>> /\ plots = <<>>

DriverIdle == MainIdle /\ ReportIdle /\ AggIdle

OtherIdle == LoadIdle /\ DriverIdle

InitPidstat ==
    /\ fn = "pidstat"
    /\ lines \in Files(PidstatLines)
    /\ i = 0
    /\ pc = "outer"
    /\ visits = [k \in 1..Len(lines) |-> 0]
    /\ cpu_index = "unbound" /\ tid_index = "unbound" /\ rss_index = "unbound"
    /\ if_index = "unbound" /\ rxpck_index = "unbound" /\ txpck_index = "unbound"
    /\ rxkb_index = "unbound" /\ txkb_index = "unbound"
    /\ stats = PidstatStats0
    /\ CalcIdle
    /\ OtherIdle

\* the CPU header branch without the reset: a column that the header does
\* not name keeps the index of the last earlier CPU header that names it
PidOpenCpuNoReset ==
    /\ fn = "pidstat" /\ pc = "outer"
    /\ Examine
    /\ IsCpuHeader(CurLine)
    /\ LET named(name) == { h \in 1..i :
                              /\ IsCpuHeader(Strip(lines[h]))
                              /\ LocateLast(Split(Strip(lines[h])), name, 0 - 1) >= 0 }
           last(name) == CHOOSE a \in named(name) : \A b \in named(name) : b <= a
           stale(name, default) ==
               IF named(name) = {} THEN default
               ELSE LocateLast(Split(Strip(lines[last(name)])), name, default)
       IN /\ cpu_index' = LocateLast(Split(CurLine), wPctCPU,
                                     stale(wPctCPU, DefaultCpuIndex))
          /\ tid_index' = LocateLast(Split(CurLine), wTID,
                                     stale(wTID, DefaultTidIndex))
    /\ i' = i + 1
    /\ pc' = "cpu"
    /\ UNCHANGED <<fn, otherVars, calcVars, lines, rss_index, idxNet, stats>>

\* outer loop, the line is a CPU header: resolve the columns, enter the data loop
PidOpenCpu ==
    /\ fn = "pidstat" /\ pc = "outer"
    /\ Examine
    /\ IsCpuHeader(CurLine)
    /\ cpu_index' = LocateLast(Split(CurLine), wPctCPU, DefaultCpuIndex)
    /\ tid_index' = LocateLast(Split(CurLine), wTID, DefaultTidIndex)
    /\ i' = i + 1
    /\ pc' = "cpu"
    /\ UNCHANGED <<fn, otherVars, calcVars, lines, rss_index, idxNet, stats>>

\* outer loop, the line is a memory header
PidOpenMem ==
    /\ fn = "pidstat" /\ pc = "outer"
    /\ Examine
    /\ IsMemHeader(CurLine)
    /\ rss_index' = LocateFirst(Split(CurLine), wRSS, DefaultRssIndex)
    /\ i' = i + 1
    /\ pc' = "mem"
    /\ UNCHANGED <<fn, otherVars, calcVars, lines, cpu_index, tid_index, idxNet, stats>>

\* outer loop, any other line: i += 1
PidSkip ==
    /\ fn = "pidstat" /\ pc = "outer"
    /\ Examine
    /\ ~IsCpuHeader(CurLine) /\ ~IsMemHeader(CurLine)
    /\ i' = i + 1
    /\ UNCHANGED <<fn, otherVars, calcVars, lines, pc, idxPid, idxNet, stats>>

\* CPU data loop, one data row
PidCpuRow ==
    /\ fn = "pidstat" /\ pc = "cpu"
    /\ Examine
    /\ ~CpuSectionEnds(CurLine)
    /\ stats' = CpuRowStats(stats, CurLine, cpu_index, tid_index)
    /\ i' = i + 1
    /\ UNCHANGED <<fn, otherVars, calcVars, lines, pc, idxPid, idxNet>>

\* CPU data loop, terminating line: break, then the outer loop's i += 1
PidCpuBreak ==
    /\ fn = "pidstat" /\ pc = "cpu"
    /\ Examine
    /\ CpuSectionEnds(CurLine)
    /\ i' = i + 1
    /\ pc' = "outer"
    /\ UNCHANGED <<fn, otherVars, calcVars, lines, idxPid, idxNet, stats>>

\* memory data loop, one data row; on ValueError from int() the `continue`
\* skips the i += 1 at the bottom of the loop
PidMemRow ==
    /\ fn = "pidstat" /\ pc = "mem"
    /\ Examine
    /\ ~MemSectionEnds(CurLine)
    /\ stats' = MemRowStats(stats, CurLine, rss_index)
    /\ i' = IF MemRowContinues(CurLine, rss_index) THEN i ELSE i + 1
    /\ UNCHANGED <<fn, otherVars, calcVars, lines, pc, idxPid, idxNet>>

\* memory data loop, terminating line
PidMemBreak ==
    /\ fn = "pidstat" /\ pc = "mem"
    /\ Examine
    /\ MemSectionEnds(CurLine)
    /\ i' = i + 1
    /\ pc' = "outer"
    /\ UNCHANGED <<fn, otherVars, calcVars, lines, idxPid, idxNet, stats>>

\* a data loop runs off the end of the file, then the outer loop's i += 1
PidSectionEof ==
    /\ fn = "pidstat" /\ pc \in {"cpu", "mem"}
    /\ i >= Len(lines)
    /\ i' = i + 1
    /\ pc' = "outer"
    /\ UNCHANGED <<fn, otherVars, calcVars, lines, visits, idxPid, idxNet, stats>>

\* the outer loop ends: statistics, return stats
PidFinish ==
    /\ fn = "pidstat" /\ pc = "outer"
    /\ i >= Len(lines)
    /\ stats' = PidstatFinal(stats)
    /\ pc' = "done"
    /\ UNCHANGED <<fn, otherVars, calcVars, lines, i, visits, idxPid, idxNet>>

NextPidstat ==
    \/ PidOpenCpu \/ PidOpenMem \/ PidSkip
    \/ PidCpuRow \/ PidCpuBreak
    \/ PidMemRow \/ PidMemBreak
    \/ PidSectionEof \/ PidFinish

SpecPidstat == InitPidstat /\ [][NextPidstat]_vars

(***************************************************************************)
(* sar network log lines                                                    *)
(***************************************************************************)
n10_0 == <<"1", "0", ".", "0">>
n20_0 == <<"2", "0", ".", "0">>
n1_5 == <<"1", ".", "5">>
n2_5 == <<"2", ".", "5">>
nNeg1_0 == <<"-", "1", ".", "0">>

NetCols == <<wIFACE, wRxpck, wTxpck, wRxkB, wTxkB>>

NetHeader == Line(<<wTime, wAM>> \o NetCols)
NetAverageHeader == Line(<<wAverage>> \o NetCols \o <<wX>>)
TwoCharLine == <<"a", "b", "\n">>

\* a row under NetHeader: IFACE at field 2, the four rates at fields 3..6
NetRow(iface, rxpck, txpck, rxkb, txkb) ==
    Line(<<wTime, wAM, iface, rxpck, txpck, rxkb, txkb>>)

NetworkLines ==
    { NetHeader, NetAverageHeader, BlankLine, BannerLine, ShortRow, TwoCharLine,
      NetRow(wEth, n10_0, n20_0, n1_5, n2_5),
      NetRow(wLo, n45_5, n45_5, n12_5, n12_5),
      NetRow(wEth, nNeg1_0, n20_0, n1_5, n2_5),
      NetRow(wEth, n10_0, n20_0, wAbc, n2_5) }

(***************************************************************************)
(* parse_network_log                                                        *)
(***************************************************************************)
MinNetFields == 7
DefaultIfIndex == 2
DefaultRxpckIndex == 3
DefaultTxpckIndex == 4
DefaultRxkbIndex == 5
DefaultTxkbIndex == 6

NetworkStats0 ==
    [pkts_recv_values |-> <<>>, pkts_recv_avg |-> RatInt(0), pkts_recv_peak |-> 0,
     pkts_recv_total |-> 0,
     pkts_sent_values |-> <<>>, pkts_sent_avg |-> RatInt(0), pkts_sent_peak |-> 0,
     pkts_sent_total |-> 0,
     kib_recv_values |-> <<>>, kib_recv_avg |-> RatInt(0), kib_recv_peak |-> 0,
     kib_recv_total |-> 0,
     kib_sent_values |-> <<>>, kib_sent_avg |-> RatInt(0), kib_sent_peak |-> 0,
     kib_sent_total |-> 0,
     has_pkts_total |-> FALSE, pkts_total_avg |-> RatInt(0), pkts_total_peak |-> 0]

\* timestamp_match and 'IFACE' in line
IsNetHeader(line) == TimestampMatch(line) /\ Contains(line, wIFACE)

\* not data_line or 'IFACE' in data_line or 'Linux' in data_line
NetSectionEnds(data_line) ==
    data_line = <<>> \/ Contains(data_line, wIFACE) \/ Contains(data_line, wLinux)

\* data_line[if_index]: one character of the stripped line, as a string
CharAt(s, idx) == <<At(s, idx)>>

\* data_line[if_index] raises IndexError, outside any try
NetRowRaises(data_line, ifIdx) == ~InRange(data_line, ifIdx)

\* if data_line[if_index] == 'lo'
IsLoopbackRow(data_line, ifIdx) == CharAt(data_line, ifIdx) = wLo

\* the four appends inside the try: the first field that is out of range or
\* not a float ends the row, the appends before it stay
NetRowStats(st, data_line, rxpckIdx, txpckIdx, rxkbIdx, txkbIdx) ==
    LET parts == Split(data_line)
        idx   == <<rxpckIdx, txpckIdx, rxkbIdx, txkbIdx>>
        good(k) == InRange(parts, idx[k]) /\ ParseFloat(At(parts, idx[k])).ok
        done(k) == \A m \in 1..k : good(m)
        val(k)  == ParseFloat(At(parts, idx[k])).val
    IN IF Len(parts) < MinNetFields THEN st
       ELSE [st EXCEPT
               !.pkts_recv_values = IF done(1) THEN Append(@, val(1)) ELSE @,
               !.pkts_sent_values = IF done(2) THEN Append(@, val(2)) ELSE @,
               !.kib_recv_values  = IF done(3) THEN Append(@, val(3)) ELSE @,
               !.kib_sent_values  = IF done(4) THEN Append(@, val(4)) ELSE @]

\* "Calculate statistics" at the end of parse_network_log
NetworkFinal(st) ==
    LET a == IF st.pkts_recv_values # <<>>
             THEN [st EXCEPT !.pkts_recv_avg = Avg(st.pkts_recv_values),
                             !.pkts_recv_peak = SeqMax(st.pkts_recv_values),
                             !.pkts_recv_total = SeqSum(st.pkts_recv_values)]
             ELSE st
        b == IF a.pkts_sent_values # <<>>
             THEN [a EXCEPT !.pkts_sent_avg = Avg(a.pkts_sent_values),
                            !.pkts_sent_peak = SeqMax(a.pkts_sent_values),
                            !.pkts_sent_total = SeqSum(a.pkts_sent_values),
                            !.has_pkts_total = TRUE,
                            !.pkts_total_avg =
                                Rat(SeqSum(a.pkts_sent_values) + SeqSum(a.pkts_recv_values),
                                    Len(a.pkts_sent_values) + Len(a.pkts_recv_values)),
                            !.pkts_total_peak = SeqMax(a.pkts_sent_values)]
             ELSE a
        c == IF b.kib_recv_values # <<>>
             THEN [b EXCEPT !.kib_recv_avg = Avg(b.kib_recv_values),
                            !.kib_recv_peak = SeqMax(b.kib_recv_values),
                            !.kib_recv_total = SeqSum(b.kib_recv_values)]
             ELSE b
    IN IF c.kib_sent_values # <<>>
       THEN [c EXCEPT !.kib_sent_avg = Avg(c.kib_sent_values),
                      !.kib_sent_peak = SeqMax(c.kib_sent_values),
                      !.kib_sent_total = SeqSum(c.kib_sent_values)]
       ELSE c

InitNetwork ==
    /\ fn = "network"
    /\ lines \in Files(NetworkLines)
    /\ i = 0
    /\ pc = "outer"
    /\ visits = [k \in 1..Len(lines) |-> 0]
    /\ cpu_index = "unbound" /\ tid_index = "unbound" /\ rss_index = "unbound"
    /\ if_index = "unbound" /\ rxpck_index = "unbound" /\ txpck_index = "unbound"
    /\ rxkb_index = "unbound" /\ txkb_index = "unbound"
    /\ stats = NetworkStats0
    /\ CalcIdle
    /\ OtherIdle

\* outer loop, the line is a network header: resolve the columns
NetOpen ==
    /\ fn = "network" /\ pc = "outer"
    /\ Examine
    /\ IsNetHeader(CurLine)
    /\ if_index' = LocateLast(Split(CurLine), wIFACE, DefaultIfIndex)
    /\ rxpck_index' = LocateLast(Split(CurLine), wRxpck, DefaultRxpckIndex)
    /\ txpck_index' = LocateLast(Split(CurLine), wTxpck, DefaultTxpckIndex)
    /\ rxkb_index' = LocateLast(Split(CurLine), wRxkB, DefaultRxkbIndex)
    /\ txkb_index' = LocateLast(Split(CurLine), wTxkB, DefaultTxkbIndex)
    /\ i' = i + 1
    /\ pc' = "net"
    /\ UNCHANGED <<fn, otherVars, calcVars, lines, idxPid, stats>>

\* outer loop, any other line
NetSkip ==
    /\ fn = "network" /\ pc = "outer"
    /\ Examine
    /\ ~IsNetHeader(CurLine)
    /\ i' = i + 1
    /\ UNCHANGED <<fn, otherVars, calcVars, lines, pc, idxPid, idxNet, stats>>

\* data loop, one data row: the loopback test, then the four appends
NetDataRow ==
    /\ fn = "network" /\ pc = "net"
    /\ Examine
    /\ ~NetSectionEnds(CurLine)
    /\ ~NetRowRaises(CurLine, if_index)
    /\ stats' = IF IsLoopbackRow(CurLine, if_index) THEN stats
                ELSE NetRowStats(stats, CurLine, rxpck_index, txpck_index,
                                 rxkb_index, txkb_index)
    /\ i' = i + 1
    /\ UNCHANGED <<fn, otherVars, calcVars, lines, pc, idxPid, idxNet>>

\* data loop, the stripped row has no character at if_index: IndexError
\* leaves parse_network_log
NetRowIndexError ==
    /\ fn = "network" /\ pc = "net"
    /\ Examine
    /\ ~NetSectionEnds(CurLine)
    /\ NetRowRaises(CurLine, if_index)
    /\ pc' = "raised"
    /\ UNCHANGED <<fn, otherVars, calcVars, lines, i, idxPid, idxNet, stats>>

\* data loop, terminating line: break, then the outer loop's i += 1
NetBreak ==
    /\ fn = "network" /\ pc = "net"
    /\ Examine
    /\ NetSectionEnds(CurLine)
    /\ i' = i + 1
    /\ pc' = "outer"
    /\ UNCHANGED <<fn, otherVars, calcVars, lines, idxPid, idxNet, stats>>

\* the data loop runs off the end of the file
NetSectionEof ==
    /\ fn = "network" /\ pc = "net"
    /\ i >= Len(lines)
    /\ i' = i + 1
    /\ pc' = "outer"
    /\ UNCHANGED <<fn, otherVars, calcVars, lines, visits, idxPid, idxNet, stats>>

\* the outer loop ends: statistics, return stats
NetFinish ==
    /\ fn = "network" /\ pc = "outer"
    /\ i >= Len(lines)
    /\ stats' = NetworkFinal(stats)
    /\ pc' = "done"
    /\ UNCHANGED <<fn, otherVars, calcVars, lines, i, visits, idxPid, idxNet>>

NextNetwork ==
    \/ NetOpen \/ NetSkip
    \/ NetDataRow \/ NetRowIndexError \/ NetBreak
    \/ NetSectionEof \/ NetFinish

SpecNetwork == InitNetwork /\ [][NextNetwork]_vars

(***************************************************************************)
(* Both log parsers                                                         *)
(***************************************************************************)
InitLogs == InitPidstat \/ InitNetwork
NextLogs == NextPidstat \/ NextNetwork
SpecLogs == InitLogs /\ [][NextLogs]_vars

(***************************************************************************)
(* The parsers on logs whose column layout varies: 24-hour timestamps (no  *)
(* AM/PM field, every column one place to the left), reordered columns,    *)
(* and headers whose tokens only resemble the column names.                *)
(***************************************************************************)
wTIDs == <<"T", "I", "D", "s">>
wPctCPUs == <<"%", "C", "P", "U", "s">>
wRSSk == <<"R", "S", "S", "k">>
wXIFACE == <<"x", "I", "F", "A", "C", "E">>
wRxpckSec == <<"r", "x", "p", "c", "k", "/", "s", "e", "c">>
wTxpckShort == <<"t", "x", "p", "c", "k">>
wKBs == <<"k", "B", "/", "s">>

CpuHeader24 == Line(<<wTime>> \o CpuCols)
CpuHeaderInexact == Line(<<wTime, wUID, wTIDs, wCPU, wPctCPUs>>)
MemHeaderInexact == Line(<<wTime, wMinfltS, wRSSk>>)
\* a row under CpuHeader24: TID at field 3, %CPU at field 8
CpuRow24(tid, cpu) == Line(<<wTime, n0, n7, tid, n0, n0, n0, n0, cpu, n0, wCmd>>)

PidstatLayoutLines ==
    { CpuHeader, CpuHeader24, CpuHeaderInexact,
      MemHeader, MemAverageHeader, MemHeaderInexact, BlankLine,
      CpuRow(n7, n45_5), CpuRow24(n9, n12_5),
      MemRow(n5000), MemAverageRow(n6000) }

NetHeader24 == Line(<<wTime>> \o NetCols)
NetHeaderSwapped == Line(<<wTime, wAM, wIFACE, wTxpck, wRxpck, wTxkB, wRxkB>>)
NetHeaderInexact == Line(<<wTime, wXIFACE, wRxpckSec, wTxpckShort, wKBs>>)
\* a row under NetHeader24: IFACE at field 1, the four rates at fields 2..5
NetRow24(iface, rxpck, txpck, rxkb, txkb) ==
    Line(<<wTime, iface, rxpck, txpck, rxkb, txkb, n0>>)

NetworkLayoutLines ==
    { NetHeader, NetHeader24, NetHeaderSwapped, NetHeaderInexact,
      BlankLine, TwoCharLine,
      NetRow(wEth, n10_0, n20_0, n1_5, n2_5),
      NetRow24(wEth, n45_5, n12_5, n2_5, n1_5) }

InitPidstatLayouts ==
    /\ fn = "pidstat"
    /\ lines \in Files(PidstatLayoutLines)
    /\ i = 0
    /\ pc = "outer"
    /\ visits = [k \in 1..Len(lines) |-> 0]
    /\ cpu_index = "unbound" /\ tid_index = "unbound" /\ rss_index = "unbound"
    /\ if_index = "unbound" /\ rxpck_index = "unbound" /\ txpck_index = "unbound"
    /\ rxkb_index = "unbound" /\ txkb_index = "unbound"
    /\ stats = PidstatStats0
    /\ CalcIdle
    /\ OtherIdle

InitNetworkLayouts ==
    /\ fn = "network"
    /\ lines \in Files(NetworkLayoutLines)
    /\ i = 0
    /\ pc = "outer"
    /\ visits = [k \in 1..Len(lines) |-> 0]
    /\ cpu_index = "unbound" /\ tid_index = "unbound" /\ rss_index = "unbound"
    /\ if_index = "unbound" /\ rxpck_index = "unbound" /\ txpck_index = "unbound"
    /\ rxkb_index = "unbound" /\ txkb_index = "unbound"
    /\ stats = NetworkStats0
    /\ CalcIdle
    /\ OtherIdle

InitLayouts == InitPidstatLayouts \/ InitNetworkLayouts
SpecLayouts == InitLayouts /\ [][NextLogs]_vars

(***************************************************************************)
(* parse_time_log (compare_results.py)                                      *)
(***************************************************************************)
lblUserTime ==
    <<"U", "s", "e", "r", " ", "t", "i", "m", "e", " ", "(", "s", "e", "c",
      "o", "n", "d", "s", ")", ":", " ">>
lblSystemTime ==
    <<"S", "y", "s", "t", "e", "m", " ", "t", "i", "m", "e", " ", "(", "s",
      "e", "c", "o", "n", "d", "s", ")", ":", " ">>
lblCpuPercent ==
    <<"P", "e", "r", "c", "e", "n", "t", " ", "o", "f", " ", "C", "P", "U",
      " ", "t", "h", "i", "s", " ", "j", "o", "b", " ", "g", "o", "t", ":",
      " ">>
lblMaxMemory ==
    <<"M", "a", "x", "i", "m", "u", "m", " ", "r", "e", "s", "i", "d", "e",
      "n", "t", " ", "s", "e", "t", " ", "s", "i", "z", "e", " ", "(", "k",
      "b", "y", "t", "e", "s", ")", ":", " ">>
lblVoluntary ==
    <<"V", "o", "l", "u", "n", "t", "a", "r", "y", " ", "c", "o", "n", "t",
      "e", "x", "t", " ", "s", "w", "i", "t", "c", "h", "e", "s", ":", " ">>
lblInvoluntary ==
    <<"I", "n", "v", "o", "l", "u", "n", "t", "a", "r", "y", " ", "c", "o",
      "n", "t", "e", "x", "t", " ", "s", "w", "i", "t", "c", "h", "e", "s",
      ":", " ">>

\* patterns, in dict order: the label, whether group 1 is [\d.]+ (else \d+),
\* and the text the pattern requires after group 1
TimePatterns ==
    << [key |-> "user_time", label |-> lblUserTime, dots |-> TRUE, suffix |-> <<>>],
       [key |-> "system_time", label |-> lblSystemTime, dots |-> TRUE, suffix |-> <<>>],
       [key |-> "cpu_percent", label |-> lblCpuPercent, dots |-> FALSE,
        suffix |-> <<"%">>],
       [key |-> "max_memory_kb", label |-> lblMaxMemory, dots |-> FALSE,
        suffix |-> <<>>],
       [key |-> "voluntary_switches", label |-> lblVoluntary, dots |-> FALSE,
        suffix |-> <<>>],
       [key |-> "involuntary_switches", label |-> lblInvoluntary, dots |-> FALSE,
        suffix |-> <<>>] >>

\* f.read(): the lines of the file, joined
RECURSIVE Flatten(_)
Flatten(ls) == IF ls = <<>> THEN <<>> ELSE Head(ls) \o Flatten(Tail(ls))

StartsAt(s, k, pat) ==
    k + Len(pat) - 1 <= Len(s) /\ SubSeq(s, k, k + Len(pat) - 1) = pat

\* the last position of the longest run of characters of set that starts at
\* position k (k - 1 when there is none): a greedy [...]+
RECURSIVE RunEnd(_, _, _)
RunEnd(s, k, set) ==
    IF k <= Len(s) /\ s[k] \in set THEN RunEnd(s, k + 1, set) ELSE k - 1

GroupChars(p) == IF p.dots THEN Digits \cup {"."} ELSE Digits

\* the pattern matches with its label at position k; giving characters of
\* the group back cannot help, since the suffix is not a group character
MatchesAt(content, k, p) ==
    /\ StartsAt(content, k, p.label)
    /\ LET s == k + Len(p.label)
           e == RunEnd(content, s, GroupChars(p))
       IN e >= s /\ StartsAt(content, e + 1, p.suffix)

\* re.search(pattern, content): the leftmost match, and its group(1)
Search(content, p) ==
    LET hits == { k \in 1..Len(content) : MatchesAt(content, k, p) } IN
    IF hits = {} THEN [found |-> FALSE, group1 |-> <<>>]
    ELSE LET k == CHOOSE h \in hits : \A g \in hits : h <= g
             s == k + Len(p.label)
         IN [found |-> TRUE,
             group1 |-> SubSeq(content, s, RunEnd(content, s, GroupChars(p)))]

\* the loop over patterns.items() from pattern n on; float() raising
\* ValueError leaves the function
RECURSIVE TimeFields(_, _, _)
TimeFields(content, n, st) ==
    IF n > Len(TimePatterns) THEN [raised |-> FALSE, stats |-> st]
    ELSE LET m == Search(content, TimePatterns[n]) IN
         IF ~m.found THEN TimeFields(content, n + 1, st)
         ELSE LET f == ParseFloat(m.group1) IN
              IF ~f.ok THEN [raised |-> TRUE, stats |-> st]
              ELSE TimeFields(content, n + 1, (TimePatterns[n].key :> f.val) @@ st)

wDots == <<".", ".", ".">>
n1_2_3 == <<"1", ".", "2", ".", "3">>
n45 == <<"4", "5">>
n45Pct == <<"4", "5", "%">>

TimeLine(label, text) == <<"\t">> \o label \o text \o <<"\n">>

TimeLines ==
    { TimeLine(lblUserTime, n1_5), TimeLine(lblUserTime, wDots),
      TimeLine(lblUserTime, n1_2_3), TimeLine(lblSystemTime, n2_5),
      TimeLine(lblCpuPercent, n45Pct), TimeLine(lblCpuPercent, n45),
      TimeLine(lblMaxMemory, n5000), TimeLine(lblVoluntary, n7),
      TimeLine(lblInvoluntary, n9), BlankLine }

\* the log exists and has been read
InitTime ==
    /\ fn = "time"
    /\ LoadIdle
    /\ lines \in Files(TimeLines)
    /\ i = 0
    /\ pc = "start"
    /\ visits = [k \in 1..Len(lines) |-> 0]
    /\ cpu_index = "unbound" /\ tid_index = "unbound" /\ rss_index = "unbound"
    /\ if_index = "unbound" /\ rxpck_index = "unbound" /\ txpck_index = "unbound"
    /\ rxkb_index = "unbound" /\ txkb_index = "unbound"
    /\ stats = <<>>
    /\ CalcIdle
    /\ DriverIdle

ParseTimeLog ==
    /\ fn = "time" /\ pc = "start"
    /\ LET r == TimeFields(Flatten(lines), 1, <<>>)
       IN /\ pc' = IF r.raised THEN "raised" ELSE "done"
          /\ stats' = IF r.raised THEN stats ELSE r.stats
    /\ UNCHANGED <<fn, otherVars, calcVars, lines, i, visits, idxPid, idxNet>>

SpecTime == InitTime /\ [][ParseTimeLog]_vars

(***************************************************************************)
(* load_results: the three parsers, one after the other, each on its own   *)
(* log of the run directory.  A parser first tests os.path.exists; the     *)
(* file is read when the parser gets to it.                                *)
(***************************************************************************)
MaxLoadLines == 2  \* longest log file explored under load_results

InitialStats(f) ==
    CASE f = "time" -> <<>>
      [] f = "pidstat" -> PidstatStats0
      [] f = "network" -> NetworkStats0

\* the key of the results dict that holds the value of parser f
ResultKey(f) ==
    CASE f = "time" -> "time_stats"
      [] f = "pidstat" -> "pidstat"
      [] f = "network" -> "network"

LoadLines(f) ==
    CASE f = "time" -> { TimeLine(lblUserTime, n1_5), TimeLine(lblUserTime, wDots) }
      [] f = "pidstat" -> { CpuHeader, CpuRow(n7, n45_5), MemHeader, MemRow(n5000),
                            MemRow(n12_5), BlankLine }
      [] f = "network" -> { NetHeader, NetRow(wEth, n10_0, n20_0, n1_5, n2_5),
                            TwoCharLine, BlankLine }

LoadFiles(f) == UNION { [1..m -> LoadLines(f)] : m \in 0..MaxLoadLines }

InitLoad ==
    /\ caller = "load_results"
    /\ file_exists \in [Parsers -> BOOLEAN]
    /\ results = <<>>
    /\ fn = "time"
    /\ pc = "entry"
    /\ lines = <<>> /\ i = 0 /\ visits = <<>>
    /\ cpu_index = "unbound" /\ tid_index = "unbound" /\ rss_index = "unbound"
    /\ if_index = "unbound" /\ rxpck_index = "unbound" /\ txpck_index = "unbound"
    /\ rxkb_index = "unbound" /\ txkb_index = "unbound"
    /\ stats = InitialStats("time")
    /\ CalcIdle
    /\ DriverIdle

\* the existence test letting a missing file through to open()
ReturnEmptyUnchecked ==
    /\ fn \in Parsers /\ pc = "entry"
    /\ ~file_exists[fn]
    /\ pc' = "raised"
    /\ UNCHANGED <<fn, otherVars, calcVars, logVars>>

\* if not os.path.exists(filepath): return stats
ReturnEmpty ==
    /\ fn \in Parsers /\ pc = "entry"
    /\ ~file_exists[fn]
    /\ pc' = "done"
    /\ UNCHANGED <<fn, otherVars, calcVars, logVars>>

\* with open(filepath) as f: f.read() / f.readlines()
ReadLog ==
    /\ fn \in Parsers /\ pc = "entry"
    /\ file_exists[fn]
    /\ lines' \in LoadFiles(fn)
    /\ visits' = [k \in 1..Len(lines') |-> 0]
    /\ pc' = IF fn = "time" THEN "start" ELSE "outer"
    /\ UNCHANGED <<fn, otherVars, calcVars, i, idxPid, idxNet, stats>>

\* a parser has returned: its value enters the dict, the next parser is called
LoadNext ==
    /\ caller = "load_results" /\ pc = "done"
    /\ fn \in {"time", "pidstat"}
    /\ results' = (ResultKey(fn) :> stats) @@ results
    /\ fn' = IF fn = "time" THEN "pidstat" ELSE "network"
    /\ pc' = "entry"
    /\ stats' = InitialStats(fn')
    /\ lines' = <<>> /\ i' = 0 /\ visits' = <<>>
    /\ cpu_index' = "unbound" /\ tid_index' = "unbound" /\ rss_index' = "unbound"
    /\ if_index' = "unbound" /\ rxpck_index' = "unbound" /\ txpck_index' = "unbound"
    /\ rxkb_index' = "unbound" /\ txkb_index' = "unbound"
    /\ UNCHANGED <<calcVars, driverVars, file_exists, caller>>

\* the last parser has returned: return results
LoadReturn ==
    /\ caller = "load_results" /\ pc = "done"
    /\ fn = "network"
    /\ results' = (ResultKey(fn) :> stats) @@ results
    /\ fn' = "load_results"
    /\ pc' = "returned"
    /\ UNCHANGED <<calcVars, driverVars, file_exists, caller, logVars>>

NextLoad ==
    \/ ReturnEmpty \/ ReadLog \/ LoadNext \/ LoadReturn
    \/ ParseTimeLog \/ NextLogs

SpecLoad == InitLoad /\ [][NextLoad]_vars

(***************************************************************************)
(* aggregate_results                                                        *)
(***************************************************************************)
\* Python values held in a per-run dict
FloatV(n) == [type |-> "float", val |-> n]
IntV(n) == [type |-> "int", val |-> n]
ListV == [type |-> "list", val |-> 0]
DictV == [type |-> "dict", val |-> 0]

Categories == {"time_stats", "pidstat", "network"}

\* per-run dicts: time_stats is empty when server_time.log is missing
TimeStatsDicts == { <<>>, "user_time" :> FloatV(5), "user_time" :> FloatV(0 - 5) }
PidstatDicts ==
    { ("cpu_avg" :> FloatV(v)) @@ ("cpu_values" :> ListV) @@ ("threads" :> DictV) :
        v \in {0, 10, 20} }
NetworkDicts == { "pkts_recv_total" :> IntV(0), "pkts_recv_total" :> IntV(7) }

Runs == { [time_stats |-> t, pidstat |-> p, network |-> n] :
            t \in TimeStatsDicts, p \in PidstatDicts, n \in NetworkDicts }

ResultLists == UNION { [1..m -> Runs] : m \in 0..MaxRuns }

\* the filter letting zero through
ContributesNonNegative(value) == value.type \in {"float", "int"} /\ value.val >= 0

\* (isinstance(value, float) or isinstance(value, int)) and value > 0
Contributes(value) == value.type \in {"float", "int"} /\ value.val > 0

\* metrics[key] after the loop over results_list, in run order
RECURSIVE MetricValues(_, _, _)
MetricValues(rl, category, key) ==
    IF rl = <<>> THEN <<>>
    ELSE LET d == Head(rl)[category]
             rest == MetricValues(Tail(rl), category, key)
         IN IF key \in DOMAIN d /\ Contributes(d[key])
            THEN <<d[key].val>> \o rest
            ELSE rest

RECURSIVE SeqMin(_)
SeqMin(s) == IF Len(s) = 1 THEN s[1]
             ELSE LET m == SeqMin(Tail(s)) IN IF Head(s) <= m THEN Head(s) ELSE m

RECURSIVE SumSquares(_)
SumSquares(s) == IF s = <<>> THEN 0 ELSE Head(s) * Head(s) + SumSquares(Tail(s))

\* the summary taking the first value for the minimum
MetricStatsMinIsFirst(values) ==
    [mean |-> Rat(SeqSum(values), Len(values)),
     var |-> Rat(Len(values) * SumSquares(values) - SeqSum(values) * SeqSum(values),
                 Len(values) * Len(values)),
     min |-> values[1],
     max |-> SeqMax(values),
     count |-> Len(values)]

\* np.mean, np.std, np.min, np.max, len; np.std(values) is the square root of
\* var, the population variance
MetricStats(values) ==
    [mean |-> Rat(SeqSum(values), Len(values)),
     var |-> Rat(Len(values) * SumSquares(values) - SeqSum(values) * SeqSum(values),
                 Len(values) * Len(values)),
     min |-> SeqMin(values),
     max |-> SeqMax(values),
     count |-> Len(values)]

\* aggregated[category]
AggregateCategory(rl, category) ==
    LET keys == UNION { DOMAIN rl[r][category] : r \in 1..Len(rl) }
        kept == { k \in keys : MetricValues(rl, category, k) # <<>> }
    IN [k \in kept |-> MetricStats(MetricValues(rl, category, k))]

\* is_none stands for the None returned for an empty list
aggregate_results(rl) ==
    IF rl = <<>>
    THEN [is_none |-> TRUE, time_stats |-> <<>>, pidstat |-> <<>>, network |-> <<>>]
    ELSE [is_none |-> FALSE,
          time_stats |-> AggregateCategory(rl, "time_stats"),
          pidstat |-> AggregateCategory(rl, "pidstat"),
          network |-> AggregateCategory(rl, "network")]

InitAggregate ==
    /\ fn = "aggregate"
    /\ pc = "start"
    /\ results_list \in ResultLists
    /\ aggregated = <<>>
    /\ multicast_val = 0 /\ unicast_val = 0 /\ improvement = RatInt(0)
    /\ LogsIdle
    /\ OtherIdle

Aggregate ==
    /\ fn = "aggregate" /\ pc = "start"
    /\ aggregated' = aggregate_results(results_list)
    /\ pc' = "done"
    /\ UNCHANGED <<fn, otherVars, logVars, results_list, multicast_val, unicast_val, improvement>>

SpecAggregate == InitAggregate /\ [][Aggregate]_vars

\* aggregate_results on the lists drawn from the runs that differ in their
\* time and CPU metrics only
OrderRuns == { r \in Runs : r.network["pkts_recv_total"].val = 7 }

InitAggregateOrder ==
    /\ fn = "aggregate"
    /\ pc = "start"
    /\ results_list \in UNION { [1..m -> OrderRuns] : m \in 0..MaxRuns }
    /\ aggregated = <<>>
    /\ multicast_val = 0 /\ unicast_val = 0 /\ improvement = RatInt(0)
    /\ LogsIdle
    /\ OtherIdle

SpecAggregateOrder == InitAggregateOrder /\ [][Aggregate]_vars

(***************************************************************************)
(* calculate_improvement                                                    *)
(***************************************************************************)
\* a / b on floats: raised stands for ZeroDivisionError
Div(a, b) == [raised |-> b = 0, val |-> Rat(a, b)]

\* the computation without the guard on a zero baseline
calculate_improvementUnguarded(m, u) ==
    LET q == Div(u - m, u)
    IN [raised |-> q.raised, val |-> Rat(q.val.num * 100, q.val.den)]

\* the computation with the sign convention inverted
calculate_improvementInverted(m, u) ==
    IF u = 0 THEN [raised |-> FALSE, val |-> RatInt(0)]
    ELSE LET q == Div(m - u, u)
         IN [raised |-> q.raised, val |-> Rat(q.val.num * 100, q.val.den)]

calculate_improvement(m, u) ==
    IF u = 0 THEN [raised |-> FALSE, val |-> RatInt(0)]
    ELSE LET q == Div(u - m, u)
         IN [raised |-> q.raised, val |-> Rat(q.val.num * 100, q.val.den)]

InitImprovement ==
    /\ fn = "improvement"
    /\ pc = "start"
    /\ multicast_val \in (0 - MaxMetric)..MaxMetric
    /\ unicast_val \in (0 - MaxMetric)..MaxMetric
    /\ improvement = RatInt(0)
    /\ results_list = <<>> /\ aggregated = <<>>
    /\ LogsIdle
    /\ OtherIdle

Improve ==
    /\ fn = "improvement" /\ pc = "start"
    /\ LET r == calculate_improvement(multicast_val, unicast_val)
       IN /\ pc' = IF r.raised THEN "raised" ELSE "done"
          /\ improvement' = IF r.raised THEN improvement ELSE r.val
    /\ UNCHANGED <<fn, otherVars, logVars, results_list, aggregated, multicast_val, unicast_val>>

SpecImprovement == InitImprovement /\ [][Improve]_vars

(***************************************************************************)
(* compare_results.main                                                     *)
(*                                                                          *)
(* load_results is taken by its outcome on a run directory: it returns the *)
(* run's results, or it is left by an exception of a parser (IndexError in *)
(* parse_network_log, ValueError in parse_time_log), or it never returns   *)
(* (the memory loop of parse_pidstat_log).                                 *)
(***************************************************************************)
MaxMatches == 2    \* most matches of one glob pattern explored

Patterns == {"multicast", "unicast"}

\* the results of a run whose server used cpu tenths of a percent of CPU
MainRun(cpu) ==
    [time_stats |-> <<>>,
     pidstat |-> ("cpu_avg" :> FloatV(cpu)) @@ ("memory_avg" :> FloatV(5000)),
     network |-> ("kib_sent_total" :> FloatV(25)) @@ ("kib_recv_total" :> FloatV(0))]

Matches ==
    { [isdir |-> FALSE, outcome |-> "none", run |-> MainRun(0)] }
    \cup { [isdir |-> TRUE, outcome |-> "returns", run |-> MainRun(c)] :
             c \in {0, 10, 20} }
    \cup { [isdir |-> TRUE, outcome |-> o, run |-> MainRun(0)] :
             o \in {"raises", "hangs"} }

MatchLists == UNION { [1..m -> Matches] : m \in 0..MaxMatches }

\* load_multiple_results: the matches that are directories are loaded in
\* order; a load that does not return ends the loop
RECURSIVE load_multiple_results(_)
load_multiple_results(dirs) ==
    IF dirs = <<>> THEN [outcome |-> "returns", all_results |-> <<>>]
    ELSE IF ~Head(dirs).isdir THEN load_multiple_results(Tail(dirs))
    ELSE IF Head(dirs).outcome # "returns"
         THEN [outcome |-> Head(dirs).outcome, all_results |-> <<>>]
    ELSE LET rest == load_multiple_results(Tail(dirs)) IN
         IF rest.outcome # "returns" THEN rest
         ELSE [outcome |-> "returns",
               all_results |-> <<Head(dirs).run>> \o rest.all_results]

\* agg[category].get(key, {}).get('mean', 0)
MeanOrZero(agg, category, key) ==
    IF key \in DOMAIN agg[category] THEN agg[category][key].mean ELSE RatInt(0)

\* calculate_improvement on two means m = a/b and u = c/d (b, d > 0):
\* (u - m) / u * 100 = (cb - ad) / cb * 100, and u = 0 iff cb = 0
ImprovementOfMeans(m, u) == calculate_improvement(m.num * u.den, u.num * m.den)

\* the key of the aggregate behind each entry of the returned dict
ComparedMetric ==
    [cpu |-> [category |-> "pidstat", key |-> "cpu_avg"],
     memory |-> [category |-> "pidstat", key |-> "memory_avg"],
     network_sent |-> [category |-> "network", key |-> "kib_sent_total"],
     network_received |-> [category |-> "network", key |-> "kib_recv_total"]]

\* the dict returned by print_comparison
print_comparison(m_agg, u_agg) ==
    [metric \in DOMAIN ComparedMetric |->
        ImprovementOfMeans(
            MeanOrZero(m_agg, ComparedMetric[metric].category, ComparedMetric[metric].key),
            MeanOrZero(u_agg, ComparedMetric[metric].category, ComparedMetric[metric].key)).val]

\* status = "Better" if improvement > 0 else "Worse"
StatusOf(imp) == IF RatLt(RatInt(0), imp) THEN "Better" ELSE "Worse"

InitMain ==
    /\ fn = "main"
    /\ pc = "start"
    /\ \/ argv_len = 4 /\ glob_matches \in [Patterns -> MatchLists]
       \/ argv_len \in 1..3 /\ glob_matches = [p \in Patterns |-> <<>>]
    /\ multicast_results = <<>> /\ unicast_results = <<>>
    /\ multicast_agg = <<>> /\ unicast_agg = <<>>
    /\ improvements = <<>> /\ summary = <<>> /\ printed = <<>>
    /\ exit_status = "none" /\ called = <<>>
    /\ LogsIdle
    /\ CalcIdle
    /\ LoadIdle
    /\ ReportIdle
    /\ AggIdle

\* if len(sys.argv) < 4: usage, sys.exit(1)
MainUsage ==
    /\ fn = "main" /\ pc = "start"
    /\ argv_len < 4
    /\ printed' = Append(printed, "usage")
    /\ exit_status' = 1
    /\ pc' = "exited"
    /\ UNCHANGED <<fn, loadVars, calcVars, logVars, reportVars, aggVars, argv_len, glob_matches,
                   multicast_results, unicast_results, multicast_agg, unicast_agg,
                   improvements, summary, called>>

\* multicast_results = load_multiple_results(multicast_pattern)
MainLoadMulticast ==
    /\ fn = "main" /\ pc = "start"
    /\ argv_len >= 4
    /\ LET r == load_multiple_results(glob_matches["multicast"])
       IN /\ multicast_results' = r.all_results
          /\ pc' = CASE r.outcome = "returns" -> "load_unicast"
                     [] r.outcome = "raises" -> "traceback"
                     [] r.outcome = "hangs" -> "hung"
          /\ exit_status' = IF r.outcome = "raises" THEN 1 ELSE exit_status
    /\ UNCHANGED <<fn, loadVars, calcVars, logVars, reportVars, aggVars, argv_len, glob_matches,
                   unicast_results, multicast_agg, unicast_agg,
                   improvements, summary, printed, called>>

\* unicast_results = load_multiple_results(unicast_pattern)
MainLoadUnicast ==
    /\ fn = "main" /\ pc = "load_unicast"
    /\ LET r == load_multiple_results(glob_matches["unicast"])
       IN /\ unicast_results' = r.all_results
          /\ pc' = CASE r.outcome = "returns" -> "check"
                     [] r.outcome = "raises" -> "traceback"
                     [] r.outcome = "hangs" -> "hung"
          /\ exit_status' = IF r.outcome = "raises" THEN 1 ELSE exit_status
    /\ UNCHANGED <<fn, loadVars, calcVars, logVars, reportVars, aggVars, argv_len, glob_matches,
                   multicast_results, multicast_agg, unicast_agg,
                   improvements, summary, printed, called>>

\* the check that tests the multicast list only
MainCheckMulticastOnly ==
    /\ fn = "main" /\ pc = "check"
    /\ IF multicast_results = <<>>
       THEN /\ printed' = Append(printed, "no_multicast")
            /\ exit_status' = 1 /\ pc' = "exited"
       ELSE /\ pc' = "aggregate"
            /\ UNCHANGED <<printed, exit_status>>
    /\ UNCHANGED <<fn, loadVars, calcVars, logVars, reportVars, aggVars, argv_len, glob_matches,
                   multicast_results, unicast_results, multicast_agg, unicast_agg,
                   improvements, summary, called>>

\* if not multicast_results: error, sys.exit(1); if not unicast_results: the same
MainCheck ==
    /\ fn = "main" /\ pc = "check"
    /\ IF multicast_results = <<>>
       THEN /\ printed' = Append(printed, "no_multicast")
            /\ exit_status' = 1 /\ pc' = "exited"
       ELSE IF unicast_results = <<>>
       THEN /\ printed' = Append(printed, "no_unicast")
            /\ exit_status' = 1 /\ pc' = "exited"
       ELSE /\ pc' = "aggregate"
            /\ UNCHANGED <<printed, exit_status>>
    /\ UNCHANGED <<fn, loadVars, calcVars, logVars, reportVars, aggVars, argv_len, glob_matches,
                   multicast_results, unicast_results, multicast_agg, unicast_agg,
                   improvements, summary, called>>

\* multicast_agg = aggregate_results(...); unicast_agg = aggregate_results(...)
MainAggregate ==
    /\ fn = "main" /\ pc = "aggregate"
    /\ multicast_agg' = aggregate_results(multicast_results)
    /\ unicast_agg' = aggregate_results(unicast_results)
    /\ called' = called \o
          << [name |-> "aggregate_results", len |-> Len(multicast_results)],
             [name |-> "aggregate_results", len |-> Len(unicast_results)] >>
    /\ pc' = "compare"
    /\ UNCHANGED <<fn, loadVars, calcVars, logVars, reportVars, aggVars, argv_len, glob_matches,
                   multicast_results, unicast_results,
                   improvements, summary, printed, exit_status>>

\* improvements = print_comparison(...); plot_comparison(...)
MainCompare ==
    /\ fn = "main" /\ pc = "compare"
    /\ improvements' = print_comparison(multicast_agg, unicast_agg)
    /\ called' = called \o
          << [name |-> "print_comparison", len |-> Len(multicast_results)],
             [name |-> "plot_comparison", len |-> Len(multicast_results)] >>
    /\ pc' = "summary"
    /\ UNCHANGED <<fn, loadVars, calcVars, logVars, reportVars, aggVars, argv_len, glob_matches,
                   multicast_results, unicast_results, multicast_agg, unicast_agg,
                   summary, printed, exit_status>>

\* the SUMMARY block: one status line per entry of improvements
MainSummary ==
    /\ fn = "main" /\ pc = "summary"
    /\ summary' = [metric \in DOMAIN improvements |-> StatusOf(improvements[metric])]
    /\ exit_status' = 0
    /\ pc' = "exited"
    /\ UNCHANGED <<fn, loadVars, calcVars, logVars, reportVars, aggVars, argv_len, glob_matches,
                   multicast_results, unicast_results, multicast_agg, unicast_agg,
                   improvements, printed, called>>

NextMain ==
    \/ MainUsage \/ MainLoadMulticast \/ MainLoadUnicast \/ MainCheck
    \/ MainAggregate \/ MainCompare \/ MainSummary

SpecMain == InitMain /\ [][NextMain]_vars

(***************************************************************************)
(* analyze_results.main prints the per-run report; parse_server_analysis   *)
(* (server_analysis_aggregator.py) reads it back.  Numbers of this part    *)
(* are exact fractions; a printed or parsed number is an integer count of  *)
(* hundredths.                                                             *)
(***************************************************************************)
lblAvgCpu ==
    <<"A", "v", "e", "r", "a", "g", "e", " ", "C", "P", "U", " ", "U", "s",
      "a", "g", "e", ":">>
lblPeakCpu ==
    <<"P", "e", "a", "k", " ", "C", "P", "U", " ", "U", "s", "a", "g", "e",
      ":">>
lblAvgMemRss ==
    <<"A", "v", "e", "r", "a", "g", "e", " ", "M", "e", "m", "o", "r", "y",
      " ", "(", "R", "S", "S", ")", ":">>
lblAvgMem ==
    <<"A", "v", "e", "r", "a", "g", "e", " ", "M", "e", "m", "o", "r", "y",
      ":">>
lblPeakMemRss ==
    <<"P", "e", "a", "k", " ", "M", "e", "m", "o", "r", "y", " ", "(", "R",
      "S", "S", ")", ":">>
lblPeakMem ==
    <<"P", "e", "a", "k", " ", "M", "e", "m", "o", "r", "y", ":">>
lblAvgPktRecv ==
    <<"A", "v", "e", "r", "a", "g", "e", " ", "P", "a", "c", "k", "e", "t",
      "s", " ", "R", "e", "c", "e", "i", "v", "e", "d", ":">>
lblPeakPktRecv ==
    <<"P", "e", "a", "k", " ", "P", "a", "c", "k", "e", "t", "s", " ", "R",
      "e", "c", "e", "i", "v", "e", "d", ":">>
lblAvgPktSent ==
    <<"A", "v", "e", "r", "a", "g", "e", " ", "P", "a", "c", "k", "e", "t",
      "s", " ", "S", "e", "n", "t", ":">>
lblPeakPktSent ==
    <<"P", "e", "a", "k", " ", "P", "a", "c", "k", "e", "t", "s", " ", "S",
      "e", "n", "t", ":">>
lblAvgKibRecv ==
    <<"A", "v", "e", "r", "a", "g", "e", " ", "K", "i", "B", " ", "R", "e",
      "c", "e", "i", "v", "e", "d", ":">>
lblPeakKibRecv ==
    <<"P", "e", "a", "k", " ", "K", "i", "B", " ", "R", "e", "c", "e", "i",
      "v", "e", "d", ":">>
lblAvgKibSent ==
    <<"A", "v", "e", "r", "a", "g", "e", " ", "K", "i", "B", " ", "S", "e",
      "n", "t", ":">>
lblPeakKibSent ==
    <<"P", "e", "a", "k", " ", "K", "i", "B", " ", "S", "e", "n", "t", ":">>
uPct ==
    <<"%">>
uB ==
    <<"B">>
uKiB ==
    <<"K", "i", "B">>
uMiB ==
    <<"M", "i", "B">>
uGiB ==
    <<"G", "i", "B">>
uTB ==
    <<"T", "B">>
uPacketsS ==
    <<"p", "a", "c", "k", "e", "t", "s", "/", "s">>
uKiBS ==
    <<"K", "i", "B", "/", "s">>

DigitChar(d) == CHOOSE c \in Digits : DigitVal(c) = d

RECURSIVE IntChars(_)
IntChars(n) == IF n < 10 THEN <<DigitChar(n)>>
               ELSE IntChars(n \div 10) \o <<DigitChar(n % 10)>>

\* a non-negative fraction rounded to hundredths, resp. to an integer (the
\* inputs have no value that lies exactly half-way)
Round2(r) == (200 * r.num + r.den) \div (2 * r.den)
Round0(r) == (2 * r.num + r.den) \div (2 * r.den)

\* f"{x:.2f}" and f"{x:.0f}"
Fmt2(r) ==
    LET h == Round2(r)
    IN IntChars(h \div 100) \o <<".", DigitChar((h \div 10) % 10), DigitChar(h % 10)>>
Fmt0(r) == IntChars(Round0(r))

\* r / 1024.0, kept in small terms
Div1024(r) == IF r.num % 1024 = 0 THEN Rat(r.num \div 1024, r.den)
              ELSE Rat(r.num, r.den * 1024)

\* format_bytes: divide by 1024 until the value is below 1024
RECURSIVE FormatBytesFrom(_, _)
FormatBytesFrom(bytes_val, units) ==
    IF units = <<>> THEN Fmt2(bytes_val) \o <<" ">> \o uTB
    ELSE IF bytes_val.num \div bytes_val.den < 1024
         THEN Fmt2(bytes_val) \o <<" ">> \o Head(units)
         ELSE FormatBytesFrom(Div1024(bytes_val), Tail(units))

format_bytes(bytes_val) == FormatBytesFrom(bytes_val, <<uB, uKiB, uMiB, uGiB>>)

Times1024(r) == Rat(r.num * 1024, r.den)

\* print(f"{label} {text}")
ReportLine(label, text) == label \o <<" ">> \o text \o <<"\n">>

\* the lines printed for pidstat.log
PidstatReport(rs) ==
    (IF rs.pidstat_exists /\ rs.cpu.avg.num > 0
     THEN ReportLine(lblAvgCpu, Fmt2(rs.cpu.avg) \o uPct)
          \o ReportLine(lblPeakCpu, Fmt2(rs.cpu.peak) \o uPct)
     ELSE <<>>)
    \o
    (IF rs.pidstat_exists /\ rs.memory.avg.num > 0
     THEN ReportLine(lblAvgMemRss, Fmt0(rs.memory.avg) \o <<" ">> \o uKiB)
          \o ReportLine(lblAvgMem, format_bytes(Times1024(rs.memory.avg)))
          \o ReportLine(lblPeakMemRss, Fmt0(rs.memory.peak) \o <<" ">> \o uKiB)
          \o ReportLine(lblPeakMem, format_bytes(Times1024(rs.memory.peak)))
     ELSE <<>>)

\* the Average and Peak lines of one network block
NetworkBlock(rs, s, avgLabel, peakLabel, unit) ==
    IF rs.network_exists /\ s.avg.num > 0
    THEN ReportLine(avgLabel, Fmt2(s.avg) \o <<" ">> \o unit)
         \o ReportLine(peakLabel, Fmt2(s.peak) \o <<" ">> \o unit)
    ELSE <<>>

\* the Average and Peak lines that main prints, in the order it prints them
\* (every other line it prints begins with other words)
AnalysisReport(rs) ==
    PidstatReport(rs)
    \o NetworkBlock(rs, rs.pkts_recv, lblAvgPktRecv, lblPeakPktRecv, uPacketsS)
    \o NetworkBlock(rs, rs.pkts_sent, lblAvgPktSent, lblPeakPktSent, uPacketsS)
    \o NetworkBlock(rs, rs.kib_recv, lblAvgKibRecv, lblPeakKibRecv, uKiBS)
    \o NetworkBlock(rs, rs.kib_sent, lblAvgKibSent, lblPeakKibSent, uKiBS)

\* float(tok) of an unsigned token, the value in hundredths; ok = FALSE
\* stands for ValueError
ParseHundredths(tok) ==
    LET d  == DotPos(tok)
        ip == IF d = 0 THEN tok ELSE SubSeq(tok, 1, d - 1)
        fp == IF d = 0 THEN <<>> ELSE SubSeq(tok, d + 1, Len(tok))
    IN IF AllDigits(ip) /\ AllDigits(fp) /\ (ip # <<>> \/ fp # <<>>) /\ Len(fp) <= 2
       THEN [ok |-> TRUE,
             val |-> DigitsVal(ip) * 100
                     + (IF Len(fp) = 1 THEN 10 * DigitsVal(fp) ELSE DigitsVal(fp))]
       ELSE [ok |-> FALSE, val |-> 0]

\* the twelve searches of parse_server_analysis, in the order it makes them;
\* spaced tells whether \s+ stands between the number and the unit
ServerPatterns ==
    <<[field |-> "avg_cpu", label |-> lblAvgCpu, unit |-> uPct, spaced |-> FALSE],
      [field |-> "peak_cpu", label |-> lblPeakCpu, unit |-> uPct, spaced |-> FALSE],
      [field |-> "avg_memory_mib", label |-> lblAvgMem, unit |-> uMiB, spaced |-> TRUE],
      [field |-> "peak_memory_mib", label |-> lblPeakMem, unit |-> uMiB, spaced |-> TRUE],
      [field |-> "avg_packets_received", label |-> lblAvgPktRecv,
       unit |-> uPacketsS, spaced |-> TRUE],
      [field |-> "peak_packets_received", label |-> lblPeakPktRecv,
       unit |-> uPacketsS, spaced |-> TRUE],
      [field |-> "avg_packets_sent", label |-> lblAvgPktSent,
       unit |-> uPacketsS, spaced |-> TRUE],
      [field |-> "peak_packets_sent", label |-> lblPeakPktSent,
       unit |-> uPacketsS, spaced |-> TRUE],
      [field |-> "avg_kib_received", label |-> lblAvgKibRecv,
       unit |-> uKiBS, spaced |-> TRUE],
      [field |-> "peak_kib_received", label |-> lblPeakKibRecv,
       unit |-> uKiBS, spaced |-> TRUE],
      [field |-> "avg_kib_sent", label |-> lblAvgKibSent, unit |-> uKiBS, spaced |-> TRUE],
      [field |-> "peak_kib_sent", label |-> lblPeakKibSent,
       unit |-> uKiBS, spaced |-> TRUE]>>

MetricFields == { ServerPatterns[n].field : n \in 1..Len(ServerPatterns) }

Whitespace == {" ", "\n", "\t"}

\* label \s+ ([\d.]+) [\s+] unit matches with its label at position k: the
\* last position of the group, or 0.  Every run is greedy, and giving
\* characters back cannot help: what follows a run is not of the run's class
ServerMatchEnd(content, k, p) ==
    IF ~StartsAt(content, k, p.label) THEN 0
    ELSE LET s1 == k + Len(p.label)
             e1 == RunEnd(content, s1, Whitespace)
             e2 == RunEnd(content, e1 + 1, Digits \cup {"."})
             e3 == IF p.spaced THEN RunEnd(content, e2 + 1, Whitespace) ELSE e2
         IN IF /\ e1 >= s1
               /\ e2 >= e1 + 1
               /\ p.spaced => e3 >= e2 + 1
               /\ StartsAt(content, e3 + 1, p.unit)
            THEN e2 ELSE 0

\* re.search(pattern, content): the leftmost match, and its group(1)
ServerSearch(content, p) ==
    LET hits == { k \in 1..Len(content) : ServerMatchEnd(content, k, p) > 0 } IN
    IF hits = {} THEN [found |-> FALSE, group1 |-> <<>>]
    ELSE LET k  == CHOOSE h \in hits : \A g \in hits : h <= g
             e2 == ServerMatchEnd(content, k, p)
             e1 == RunEnd(content, k + Len(p.label), Whitespace)
         IN [found |-> TRUE, group1 |-> SubSeq(content, e1 + 1, e2)]

\* the searches from the n-th on: .group(1) of no match raises
\* AttributeError, float() of a malformed number ValueError
RECURSIVE ServerFields(_, _, _)
ServerFields(content, n, m) ==
    IF n > Len(ServerPatterns) THEN [raised |-> "none", metrics |-> m]
    ELSE LET found == ServerSearch(content, ServerPatterns[n]) IN
         IF ~found.found THEN [raised |-> "AttributeError", metrics |-> <<>>]
         ELSE LET f == ParseHundredths(found.group1) IN
              IF ~f.ok THEN [raised |-> "ValueError", metrics |-> <<>>]
              ELSE ServerFields(content, n + 1, (ServerPatterns[n].field :> f.val) @@ m)

parse_server_analysis(content) == ServerFields(content, 1, <<>>)

\* average and peak of one metric, as the parsers of analyze_results return them
Sample(a, p) == [avg |-> a, peak |-> p]
NoSample == Sample(Rat(0, 1), Rat(0, 1))

CpuSamples == {NoSample, Sample(Rat(91, 2), Rat(241, 4))}
\* RSS in KiB: below 1 MiB, between 1 MiB and 1 GiB, across 1 MiB, above 1 GiB
MemorySamples ==
    {NoSample,
     Sample(Rat(500, 1), Rat(600, 1)),
     Sample(Rat(5000, 1), Rat(6000, 1)),
     Sample(Rat(900, 1), Rat(2048, 1)),
     Sample(Rat(1500000, 1), Rat(2000000, 1))}
RateSamples == {NoSample, Sample(Rat(10, 3), Rat(20, 1))}

RunStats ==
    [pidstat_exists : BOOLEAN, network_exists : BOOLEAN,
     cpu : CpuSamples, memory : MemorySamples,
     pkts_recv : RateSamples, pkts_sent : RateSamples,
     kib_recv : RateSamples, kib_sent : RateSamples]

InitReport ==
    /\ fn = "analyze_main"
    /\ pc = "start"
    /\ run_stats \in RunStats
    /\ report = <<>>
    /\ metrics = <<>>
    /\ LogsIdle
    /\ CalcIdle
    /\ LoadIdle
    /\ MainIdle
    /\ AggIdle

\* analyze_results.main: the report of one run
AnalyzeMain ==
    /\ fn = "analyze_main"
    /\ pc = "start"
    /\ report' = AnalysisReport(run_stats)
    /\ pc' = "printed"
    /\ UNCHANGED <<fn, loadVars, calcVars, logVars, mainVars, aggVars, run_stats, metrics>>

\* parse_server_analysis on the file that holds the report
ParseServerAnalysis ==
    /\ fn = "analyze_main"
    /\ pc = "printed"
    /\ LET r == parse_server_analysis(report) IN
       /\ metrics' = r.metrics
       /\ pc' = IF r.raised = "none" THEN "returned" ELSE r.raised
    /\ fn' = "parse_server_analysis"
    /\ UNCHANGED <<loadVars, calcVars, logVars, mainVars, aggVars, run_stats, report>>

NextReport == AnalyzeMain \/ ParseServerAnalysis

SpecReport == InitReport /\ [][NextReport]_vars

(***************************************************************************)
(* server_analysis_aggregator.main: one report per run folder, grouped by  *)
(* scenario and averaged.  Folder names are written in the characters of   *)
(* Alphabet, whose order is the order of their code points.                *)
(***************************************************************************)
MaxFolders == 2

Alphabet ==
    <<"0", "1", "2", "3", "4", "5", "6", "7", "8", "9", "_", "a", "b", "c",
      "d", "e", "f", "g", "h", "i", "j", "k", "l", "m", "n", "o", "p", "q",
      "r", "s", "t", "u", "v", "w", "x", "y", "z">>
NameChars == { Alphabet[k] : k \in 1..Len(Alphabet) }
Ord(c) == CHOOSE k \in 1..Len(Alphabet) : Alphabet[k] = c

\* [^_] and [^_\d] on names
NotUnderscore == NameChars \ {"_"}
NotUnderscoreDigit == NotUnderscore \ Digits

wIter == <<"_", "i", "t", "e", "r">>
wUnicast == <<"u", "n", "i", "c", "a", "s", "t">>
wMulticast == <<"m", "u", "l", "t", "i", "c", "a", "s", "t">>

\* re.match(r'(.+?)_iter\d+_', folder_name): the shortest group(1), or <<>>
\* when there is no match
IterMatch(folder_name) ==
    LET ok(k) == /\ StartsAt(folder_name, k + 1, wIter)
                 /\ LET e == RunEnd(folder_name, k + 6, Digits)
                    IN e >= k + 6 /\ StartsAt(folder_name, e + 1, <<"_">>)
        ks == { k \in 1..Len(folder_name) : ok(k) }
    IN IF ks = {} THEN <<>>
       ELSE SubSeq(folder_name, 1, CHOOSE k \in ks : \A m \in ks : k <= m)

\* re.search(r'([^_]+)_(\d+)_', scenario): the leftmost match and its groups
ClientSearch(scenario) ==
    LET e1(p) == RunEnd(scenario, p, NotUnderscore)
        e2(p) == RunEnd(scenario, e1(p) + 2, Digits)
        ok(p) == /\ e1(p) >= p
                 /\ StartsAt(scenario, e1(p) + 1, <<"_">>)
                 /\ e2(p) >= e1(p) + 2
                 /\ StartsAt(scenario, e2(p) + 1, <<"_">>)
        ps == { p \in 1..Len(scenario) : ok(p) }
    IN IF ps = {} THEN [found |-> FALSE, group1 |-> <<>>, group2 |-> <<>>]
       ELSE LET p == CHOOSE q \in ps : \A m \in ps : q <= m
            IN [found |-> TRUE,
                group1 |-> SubSeq(scenario, p, e1(p)),
                group2 |-> SubSeq(scenario, e1(p) + 2, e2(p))]

\* re.match(r'([^_\d]+_)\d+(_[^_]+)', scenario)
PartsMatch(scenario) ==
    LET e1 == RunEnd(scenario, 1, NotUnderscoreDigit)
        e2 == RunEnd(scenario, e1 + 2, Digits)
        e3 == RunEnd(scenario, e2 + 2, NotUnderscore)
    IN IF /\ e1 >= 1
          /\ StartsAt(scenario, e1 + 1, <<"_">>)
          /\ e2 >= e1 + 2
          /\ StartsAt(scenario, e2 + 1, <<"_">>)
          /\ e3 >= e2 + 2
       THEN [found |-> TRUE,
             group1 |-> SubSeq(scenario, 1, e1 + 1),
             group2 |-> SubSeq(scenario, e2 + 1, e3)]
       ELSE [found |-> FALSE, group1 |-> <<>>, group2 |-> <<>>]

\* extract_scenario_name: .group on no match raises AttributeError
extract_scenario_name(folder_name) ==
    LET m        == IterMatch(folder_name)
        scenario == IF m # <<>> THEN m ELSE folder_name
        client   == ClientSearch(scenario)
        parts    == PartsMatch(scenario)
        client_number == IF Len(client.group2) = 1
                         THEN <<"0">> \o client.group2 ELSE client.group2
    IN IF ~client.found \/ ~parts.found
       THEN [raised |-> TRUE, scenario |-> <<>>]
       ELSE [raised |-> FALSE,
             scenario |-> parts.group1 \o client_number \o parts.group2]

\* str < str
RECURSIVE StrLess(_, _)
StrLess(a, b) ==
    IF b = <<>> THEN FALSE
    ELSE IF a = <<>> THEN TRUE
    ELSE IF Head(a) # Head(b) THEN Ord(Head(a)) < Ord(Head(b))
    ELSE StrLess(Tail(a), Tail(b))

\* sorted(keys)
RECURSIVE Sorted(_)
Sorted(keys) ==
    IF keys = {} THEN <<>>
    ELSE LET least == CHOOSE a \in keys : \A b \in keys \ {a} : StrLess(a, b)
         IN <<least>> \o Sorted(keys \ {least})

\* sum(m.field for m in metrics_list) / n
FieldAverage(metrics_list, field) ==
    Rat(SeqSum([k \in 1..Len(metrics_list) |-> metrics_list[k][field]]),
        Len(metrics_list))

\* calculate_averages: n = 0 is a division by zero
calculate_averages(metrics_list) ==
    [f \in MetricFields |-> FieldAverage(metrics_list, f)]

\* names of run folders: two iterations of one scenario, two more scenarios,
\* a name without a client count, a name whose first word is not followed by
\* the client count
nMulticast5Iter1 ==
    <<"m", "u", "l", "t", "i", "c", "a", "s", "t", "_", "5", "_">> \o
    <<"c", "_", "i", "t", "e", "r", "1", "_", "a">>
nMulticast5Iter2 ==
    <<"m", "u", "l", "t", "i", "c", "a", "s", "t", "_", "5", "_">> \o
    <<"c", "_", "i", "t", "e", "r", "2", "_", "a">>
nUnicast5Iter1 ==
    <<"u", "n", "i", "c", "a", "s", "t", "_", "5", "_", "c", "_">> \o
    <<"i", "t", "e", "r", "1", "_", "a">>
nUnicast12Iter1 ==
    <<"u", "n", "i", "c", "a", "s", "t", "_", "1", "2", "_", "c">> \o
    <<"_", "i", "t", "e", "r", "1", "_", "a">>
nPlots == <<"p", "l", "o", "t", "s">>
nTestRun ==
    <<"t", "e", "s", "t", "_", "r", "u", "n", "_", "5", "_", "c">> \o
    <<"_", "i", "t", "e", "r", "1", "_", "a">>
FolderNames == {nMulticast5Iter1, nMulticast5Iter2, nUnicast5Iter1, nUnicast12Iter1, nPlots, nTestRun}

\* runs behind the reports of the folders: two whose report is read back,
\* and one whose memory lines carry GiB
RateSample == Sample(Rat(10, 3), Rat(20, 1))
RunOf(cpu, memory) ==
    [pidstat_exists |-> TRUE, network_exists |-> TRUE, cpu |-> cpu,
     memory |-> memory, pkts_recv |-> RateSample, pkts_sent |-> RateSample,
     kib_recv |-> RateSample, kib_sent |-> RateSample]
RunA == RunOf(Sample(Rat(91, 2), Rat(241, 4)), Sample(Rat(5000, 1), Rat(6000, 1)))
RunB == RunOf(Sample(Rat(20, 1), Rat(30, 1)), Sample(Rat(2048, 1), Rat(4096, 1)))
RunGiB == RunOf(Sample(Rat(91, 2), Rat(241, 4)),
                Sample(Rat(1500000, 1), Rat(2000000, 1)))

FolderRuns == {RunA, RunB, RunGiB}

\* what main computes from a folder's name and from its file, for every name
\* and report of the listings
ScenarioOf == [n \in FolderNames |-> extract_scenario_name(n)]
MetricsOf == [r \in FolderRuns |-> parse_server_analysis(AnalysisReport(r))]

\* an entry of base_path: a plain file, a directory without
\* server_analysis.txt, or a run folder with the report of a run
Entry(name, is_dir, has_file, run) ==
    [name |-> name, is_dir |-> is_dir, has_file |-> has_file, run |-> run]
Entries ==
    { Entry(n, FALSE, FALSE, RunA) : n \in FolderNames }
    \cup { Entry(n, TRUE, FALSE, RunA) : n \in FolderNames }
    \cup { Entry(n, TRUE, TRUE, r) : n \in FolderNames, r \in FolderRuns }

\* base_path.iterdir(): entries with distinct names, in any order
Listings ==
    { s \in UNION { [1..n -> Entries] : n \in 0..MaxFolders } :
        \A a, b \in 1..Len(s) : a # b => s[a].name # s[b].name }

InitAggregator ==
    /\ fn = "aggregator_main"
    /\ pc = "folders"
    /\ folders \in Listings
    /\ pos = 1
    /\ scenario_metrics = <<>>
    /\ number_of_clients = <<>>
    /\ unicast_avg_cpu = <<>> /\ unicast_avg_mem = <<>> /\ unicast_avg_sent = <<>>
    /\ multicast_avg_cpu = <<>> /\ multicast_avg_mem = <<>>
    /\ multicast_avg_sent = <<>>
    /\ reported = <<>> /\ errors = <<>> /\ plots = <<>>
    /\ LogsIdle
    /\ CalcIdle
    /\ LoadIdle
    /\ MainIdle
    /\ ReportIdle

listVars == <<number_of_clients, unicast_avg_cpu, unicast_avg_mem, unicast_avg_sent,
              multicast_avg_cpu, multicast_avg_mem, multicast_avg_sent>>
aggRest == <<fn, loadVars, calcVars, logVars, mainVars, reportVars>>

InFolderLoop == fn = "aggregator_main" /\ pc = "folders" /\ pos <= Len(folders)
Folder == folders[pos]

\* if not folder.is_dir(): continue
AggNotDir ==
    /\ InFolderLoop
    /\ ~Folder.is_dir
    /\ pos' = pos + 1
    /\ UNCHANGED <<aggRest, pc, folders, scenario_metrics, listVars, reported,
                   errors, plots>>

\* if not analysis_file.exists(): continue
AggNoFile ==
    /\ InFolderLoop
    /\ Folder.is_dir /\ ~Folder.has_file
    /\ pos' = pos + 1
    /\ UNCHANGED <<aggRest, pc, folders, scenario_metrics, listVars, reported,
                   errors, plots>>

\* extract_scenario_name raises: the call stands before the try, main is left
AggNameError ==
    /\ InFolderLoop
    /\ Folder.is_dir /\ Folder.has_file
    /\ ScenarioOf[Folder.name].raised
    /\ pc' = "AttributeError"
    /\ UNCHANGED <<aggRest, pos, folders, scenario_metrics, listVars, reported,
                   errors, plots>>

\* the handler of a variant that looks the scenario's list up before it
\* parses: the defaultdict makes the key although nothing is appended
AggParseErrorMakesKey ==
    /\ InFolderLoop
    /\ Folder.is_dir /\ Folder.has_file
    /\ ~ScenarioOf[Folder.name].raised
    /\ MetricsOf[Folder.run].raised # "none"
    /\ errors' = Append(errors, Folder.name)
    /\ pos' = pos + 1
    /\ scenario_metrics' =
          IF ScenarioOf[Folder.name].scenario \in DOMAIN scenario_metrics
          THEN scenario_metrics
          ELSE (ScenarioOf[Folder.name].scenario :> <<>>) @@ scenario_metrics
    /\ UNCHANGED <<aggRest, pc, folders, listVars, reported, plots>>

\* parse_server_analysis raises inside the try: the error is printed
AggParseError ==
    /\ InFolderLoop
    /\ Folder.is_dir /\ Folder.has_file
    /\ ~ScenarioOf[Folder.name].raised
    /\ MetricsOf[Folder.run].raised # "none"
    /\ errors' = Append(errors, Folder.name)
    /\ pos' = pos + 1
    /\ UNCHANGED <<aggRest, pc, folders, scenario_metrics, listVars, reported, plots>>

\* scenario_metrics[scenario].append(metrics)
AggAppend ==
    /\ InFolderLoop
    /\ Folder.is_dir /\ Folder.has_file
    /\ ~ScenarioOf[Folder.name].raised
    /\ LET scenario == ScenarioOf[Folder.name].scenario
           r        == MetricsOf[Folder.run]
       IN /\ r.raised = "none"
          /\ scenario_metrics' =
                IF scenario \in DOMAIN scenario_metrics
                THEN [scenario_metrics EXCEPT ![scenario] = Append(@, r.metrics)]
                ELSE (scenario :> <<r.metrics>>) @@ scenario_metrics
    /\ pos' = pos + 1
    /\ UNCHANGED <<aggRest, pc, folders, listVars, reported, errors, plots>>

\* the folder loop is over: the loop over sorted(scenario_metrics.keys())
AggFoldersDone ==
    /\ fn = "aggregator_main" /\ pc = "folders" /\ pos > Len(folders)
    /\ pc' = "scenarios"
    /\ pos' = 1
    /\ UNCHANGED <<aggRest, folders, scenario_metrics, listVars, reported,
                   errors, plots>>

ScenarioKeys == Sorted(DOMAIN scenario_metrics)

\* one scenario: its averages, its place in the plot lists, its report
AggScenario ==
    /\ fn = "aggregator_main" /\ pc = "scenarios" /\ pos <= Len(ScenarioKeys)
    /\ LET scenario      == ScenarioKeys[pos]
           metrics_list  == scenario_metrics[scenario]
           avg_metrics   == calculate_averages(metrics_list)
           found         == ClientSearch(scenario)
           type          == found.group1
           client_number == DigitsVal(found.group2)
           add(list, v)  == IF type = wUnicast THEN Append(list, v) ELSE list
           addM(list, v) == IF type = wMulticast THEN Append(list, v) ELSE list
       IN /\ number_of_clients' =
                IF \E k \in 1..Len(number_of_clients) :
                      number_of_clients[k] = client_number
                THEN number_of_clients
                ELSE Append(number_of_clients, client_number)
          /\ unicast_avg_cpu' = add(unicast_avg_cpu, avg_metrics["avg_cpu"])
          /\ unicast_avg_mem' = add(unicast_avg_mem, avg_metrics["avg_memory_mib"])
          /\ unicast_avg_sent' = add(unicast_avg_sent, avg_metrics["avg_kib_sent"])
          /\ multicast_avg_cpu' = addM(multicast_avg_cpu, avg_metrics["avg_cpu"])
          /\ multicast_avg_mem' =
                addM(multicast_avg_mem, avg_metrics["avg_memory_mib"])
          /\ multicast_avg_sent' =
                addM(multicast_avg_sent, avg_metrics["avg_kib_sent"])
          /\ reported' = Append(reported, [scenario |-> scenario,
                                            iterations |-> Len(metrics_list),
                                            avg_metrics |-> avg_metrics])
    /\ pos' = pos + 1
    /\ UNCHANGED <<aggRest, pc, folders, scenario_metrics, errors, plots>>

PlotCall(client_counts, unicast_values, multicast_values) ==
    [client_counts |-> client_counts, unicast_values |-> unicast_values,
     multicast_values |-> multicast_values]

AtPlots == fn = "aggregator_main" /\ pc = "scenarios" /\ pos > Len(ScenarioKeys)

\* the three calls of plot_metrics_over_clients
AggPlot ==
    /\ AtPlots
    /\ unicast_avg_cpu # <<>> /\ multicast_avg_cpu # <<>>
    /\ plots' = <<PlotCall(number_of_clients, unicast_avg_cpu, multicast_avg_cpu),
                  PlotCall(number_of_clients, unicast_avg_mem, multicast_avg_mem),
                  PlotCall(number_of_clients, unicast_avg_sent, multicast_avg_sent)>>
    /\ pc' = "done"
    /\ UNCHANGED <<aggRest, pos, folders, scenario_metrics, listVars, reported, errors>>

\* max() of an empty list in the first call raises ValueError; lists of
\* different lengths are handed to ax.bar of the plotting library, which may
\* reject them with ValueError or draw them
AggPlotError ==
    /\ AtPlots
    /\ \/ unicast_avg_cpu = <<>> \/ multicast_avg_cpu = <<>>
       \/ Len(unicast_avg_cpu) # Len(number_of_clients)
       \/ Len(multicast_avg_cpu) # Len(number_of_clients)
    /\ pc' = "ValueError"
    /\ UNCHANGED <<aggRest, pos, folders, scenario_metrics, listVars, reported,
                   errors, plots>>

NextAggregator ==
    \/ AggNotDir \/ AggNoFile \/ AggNameError \/ AggParseError \/ AggAppend
    \/ AggFoldersDone \/ AggScenario \/ AggPlot \/ AggPlotError

SpecAggregator == InitAggregator /\ [][NextAggregator]_vars

(***************************************************************************)
(* The whole program                                                        *)
(***************************************************************************)
Init ==
    \/ InitLogs \/ InitLayouts \/ InitTime \/ InitLoad
    \/ InitAggregate \/ InitImprovement \/ InitMain
    \/ InitReport \/ InitAggregator
Next ==
    \/ NextLoad \/ Aggregate \/ Improve \/ NextMain
    \/ NextReport \/ NextAggregator
Spec == Init /\ [][Next]_vars

(***************************************************************************)
(* Properties                                                               *)
(***************************************************************************)
\* the fields of the row the data loop is looking at
RowParts == Split(CurLine)

NetValues == <<stats.pkts_recv_values, stats.pkts_sent_values,
               stats.kib_recv_values, stats.kib_sent_values>>

\* p is the maximum of the non-empty sequence s
IsMaxOf(p, s) == (\E k \in 1..Len(s) : s[k] = p) /\ (\A k \in 1..Len(s) : s[k] <= p)

\* C1: a network data row whose interface-name field is exactly "lo" adds no
\* value to any of the four network sample sequences.
C1_LoopbackRowsExcluded ==
    [][(/\ fn = "network" /\ pc = "net" /\ i < Len(lines)
        /\ InRange(RowParts, if_index)
        /\ At(RowParts, if_index) = wLo)
       => NetValues' = NetValues]_vars

\* C2: parse_pidstat_log examines every line at most once: the line index
\* advances on every loop iteration, also past a memory row whose RSS field
\* is not an integer.
C2_EachLineVisitedOnce ==
    fn = "pidstat" => \A k \in 1..Len(lines) : visits[k] <= 1

\* C3: parse_pidstat_log and parse_network_log never raise, whatever the file
\* holds.
C3_ParsersNeverRaise ==
    fn \in {"pidstat", "network"} => pc # "raised"

\* C4: a CPU value v parsed from a data row of a CPU section is appended to
\* the CPU samples iff 0 <= v <= 200; every CPU sample, and the resulting
\* average and peak, lie in [0, 200].
C4_CpuRange ==
    /\ [](fn = "pidstat" =>
            /\ \A k \in 1..Len(stats.cpu_values) :
                  0 <= stats.cpu_values[k] /\ stats.cpu_values[k] <= 2000
            /\ RatLe(RatInt(0), stats.cpu_avg) /\ RatLe(stats.cpu_avg, RatInt(2000))
            /\ 0 <= stats.cpu_peak /\ stats.cpu_peak <= 2000)
    /\ [][(/\ fn = "pidstat" /\ pc = "cpu" /\ i < Len(lines)
           /\ ~CpuSectionEnds(CurLine)
           /\ Len(RowParts) >= 9
           /\ InRange(RowParts, cpu_index)
           /\ ParseFloat(At(RowParts, cpu_index)).ok)
          => LET v == ParseFloat(At(RowParts, cpu_index)).val
             IN stats'.cpu_values =
                  IF 0 <= v /\ v <= 2000 THEN Append(stats.cpu_values, v)
                  ELSE stats.cpu_values]_vars

C4_Witness ==
    /\ fn = "pidstat" /\ pc = "done"
    /\ lines = <<CpuHeader, CpuRow(n7, n200_1), CpuRow(wDash, n200_0)>>
    /\ stats.cpu_values = <<2000>>
    /\ stats.cpu_peak = 2000

\* C5: an integer RSS value v read from a data row of a memory section is
\* appended unchanged to the memory samples iff v > 100; every memory sample,
\* and a non-zero memory average or peak, is greater than 100.
C5_RssThreshold ==
    /\ [](fn = "pidstat" =>
            /\ \A k \in 1..Len(stats.memory_values) : stats.memory_values[k] > 100
            /\ stats.memory_avg.num # 0 => RatLt(RatInt(100), stats.memory_avg)
            /\ stats.memory_peak # 0 => stats.memory_peak > 100)
    /\ [][(/\ fn = "pidstat" /\ pc = "mem" /\ i < Len(lines)
           /\ ~MemSectionEnds(CurLine)
           /\ Len(RowParts) >= 8
           /\ InRange(RowParts, rss_index)
           /\ ParseInt(At(RowParts, rss_index)).ok)
          => LET v == ParseInt(At(RowParts, rss_index)).val
             IN stats'.memory_values =
                  IF v > 100 THEN Append(stats.memory_values, v)
                  ELSE stats.memory_values]_vars

C5_Witness ==
    /\ fn = "pidstat" /\ pc = "done"
    /\ lines = <<MemHeader, MemRow(n100), MemRow(n5000)>>
    /\ stats.memory_values = <<5000>>
    /\ stats.memory_peak = 5000

\* the runs of results_list in which value `key` of `category` is a plain
\* number strictly greater than 0
ContributingRuns(category, key) ==
    { r \in 1..Len(results_list) :
        /\ key \in DOMAIN results_list[r][category]
        /\ results_list[r][category][key].type \in {"float", "int"}
        /\ results_list[r][category][key].val > 0 }

RECURSIVE SumOver(_, _, _)
SumOver(runs, category, key) ==
    IF runs = {} THEN 0
    ELSE LET r == CHOOSE x \in runs : TRUE
         IN results_list[r][category][key].val + SumOver(runs \ {r}, category, key)

RECURSIVE SumSquaresOver(_, _, _)
SumSquaresOver(runs, category, key) ==
    IF runs = {} THEN 0
    ELSE LET r == CHOOSE x \in runs : TRUE
             v == results_list[r][category][key].val
         IN v * v + SumSquaresOver(runs \ {r}, category, key)

MetricKeys == {"user_time", "cpu_avg", "cpu_values", "threads", "pkts_recv_total"}

\* C6: for every metric key, aggregate_results computes mean, std (as its
\* square, the population variance), min, max and count over exactly the
\* runs in which the value is a plain number > 0; count
\* is the number of those runs; a key without such a run is absent from the
\* aggregate; per-run CPU averages [10, 0, 20] give mean 15 and count 2.
C6_AggregateOverPositiveRuns ==
    (fn = "aggregate" /\ pc = "done" /\ results_list # <<>>) =>
        /\ ~aggregated.is_none
        /\ \A c \in Categories :
             /\ DOMAIN aggregated[c] \subseteq MetricKeys
             /\ \A k \in MetricKeys :
                  LET runs == ContributingRuns(c, k) IN
                  IF runs = {} THEN k \notin DOMAIN aggregated[c]
                  ELSE /\ k \in DOMAIN aggregated[c]
                       /\ aggregated[c][k].count = Cardinality(runs)
                       /\ RatEq(aggregated[c][k].mean,
                                Rat(SumOver(runs, c, k), Cardinality(runs)))
                       /\ \E r \in runs : results_list[r][c][k].val = aggregated[c][k].min
                       /\ \A r \in runs : results_list[r][c][k].val >= aggregated[c][k].min
                       /\ \E r \in runs : results_list[r][c][k].val = aggregated[c][k].max
                       /\ \A r \in runs : results_list[r][c][k].val <= aggregated[c][k].max
                       /\ LET n == Cardinality(runs) IN
                          RatEq(aggregated[c][k].var,
                                Rat(n * SumSquaresOver(runs, c, k)
                                      - SumOver(runs, c, k) * SumOver(runs, c, k),
                                    n * n))
        /\ (/\ Len(results_list) = 3
            /\ \A r \in 1..3 : results_list[r].pidstat["cpu_avg"].val = <<10, 0, 20>>[r])
           => /\ RatEq(aggregated.pidstat["cpu_avg"].mean, RatInt(15))
              /\ aggregated.pidstat["cpu_avg"].count = 2

C6_Witness ==
    /\ fn = "aggregate" /\ pc = "done"
    /\ Len(results_list) = 3
    /\ \A r \in 1..3 : results_list[r].pidstat["cpu_avg"].val = <<10, 0, 20>>[r]
    /\ \A r \in 1..3 : results_list[r].time_stats = <<>>
    /\ aggregated.pidstat["cpu_avg"].count = 2
    /\ aggregated.pidstat["cpu_avg"].mean = Rat(30, 2)
    /\ DOMAIN aggregated.pidstat = {"cpu_avg"}
    /\ DOMAIN aggregated.time_stats = {}

\* C7: calculate_improvement returns exactly 0 whenever the baseline is 0,
\* for every treatment value, and never divides by zero.
C7_ZeroBaseline ==
    fn = "improvement" =>
        /\ pc # "raised"
        /\ (pc = "done" /\ unicast_val = 0) => improvement = RatInt(0)

C7_Witness ==
    /\ fn = "improvement" /\ pc = "done"
    /\ unicast_val = 0 /\ multicast_val = 7
    /\ improvement = RatInt(0)

\* C8: for baseline > 0 the improvement is (baseline - treatment) / baseline
\* * 100: positive iff treatment < baseline, negative iff treatment >
\* baseline, zero iff they are equal, at most 100 for treatment >= 0;
\* treatment 10 against baseline 20 gives 50.
C8_ImprovementFormula ==
    (fn = "improvement" /\ pc = "done" /\ unicast_val > 0) =>
        /\ RatEq(improvement, Rat((unicast_val - multicast_val) * 100, unicast_val))
        /\ RatLt(RatInt(0), improvement) <=> multicast_val < unicast_val
        /\ RatLt(improvement, RatInt(0)) <=> multicast_val > unicast_val
        /\ RatEq(improvement, RatInt(0)) <=> multicast_val = unicast_val
        /\ multicast_val >= 0 => RatLe(improvement, RatInt(100))
        /\ (multicast_val = 10 /\ unicast_val = 20) => RatEq(improvement, RatInt(50))

C8_Witness ==
    /\ fn = "improvement" /\ pc = "done"
    /\ multicast_val = 10 /\ unicast_val = 20
    /\ RatEq(improvement, RatInt(50))

\* avg, peak and total of one sample sequence after the final statistics
SummaryOf(values, avg, peak) ==
    IF values = <<>> THEN avg = RatInt(0) /\ peak = 0
    ELSE /\ avg.num = SeqSum(values) /\ avg.den = Len(values)
         /\ IsMaxOf(peak, values)
         /\ Len(values) = 1 => RatEq(avg, RatInt(values[1])) /\ peak = values[1]

TotalOf(values, total) ==
    IF values = <<>> THEN total = 0
    ELSE total = SeqSum(values) /\ (Len(values) = 1 => total = values[1])

\* C9: for each sample sequence of parse_pidstat_log and parse_network_log,
\* avg = sum / length, peak = maximum and (network) total = sum when the
\* sequence is non-empty, all of them 0 when it is empty; a single sample v
\* gives avg = peak = total = v.
C9_PerRunStatistics ==
    /\ (fn = "pidstat" /\ pc = "done") =>
         /\ SummaryOf(stats.cpu_values, stats.cpu_avg, stats.cpu_peak)
         /\ SummaryOf(stats.memory_values, stats.memory_avg, stats.memory_peak)
    /\ (fn = "network" /\ pc = "done") =>
         /\ SummaryOf(stats.pkts_recv_values, stats.pkts_recv_avg, stats.pkts_recv_peak)
         /\ TotalOf(stats.pkts_recv_values, stats.pkts_recv_total)
         /\ SummaryOf(stats.pkts_sent_values, stats.pkts_sent_avg, stats.pkts_sent_peak)
         /\ TotalOf(stats.pkts_sent_values, stats.pkts_sent_total)
         /\ SummaryOf(stats.kib_recv_values, stats.kib_recv_avg, stats.kib_recv_peak)
         /\ TotalOf(stats.kib_recv_values, stats.kib_recv_total)
         /\ SummaryOf(stats.kib_sent_values, stats.kib_sent_avg, stats.kib_sent_peak)
         /\ TotalOf(stats.kib_sent_values, stats.kib_sent_total)

C9_Witness ==
    /\ fn = "network" /\ pc = "done"
    /\ stats.pkts_recv_values = <<100, 0 - 10>>
    /\ stats.pkts_recv_avg = Rat(90, 2)
    /\ stats.pkts_recv_peak = 100
    /\ stats.pkts_recv_total = 90
    /\ stats.kib_sent_values = <<25, 25>>

\* C10: a line opens a section (CPU, memory or network) only if it begins
\* with an HH:MM:SS timestamp and contains that kind's marker tokens.
C10_SectionNeedsTimestamp ==
    [][(pc = "outer" /\ pc' \in {"cpu", "mem", "net"}) =>
          /\ TimestampMatch(CurLine)
          /\ pc' = "cpu" => Contains(CurLine, wUID) /\ Contains(CurLine, wPctCPU)
          /\ pc' = "mem" => Contains(CurLine, wMinfltS)
          /\ pc' = "net" => Contains(CurLine, wIFACE)]_vars

\* the marker token whose repetition closes a section of the given kind
SectionMarker(kind) ==
    CASE kind = "cpu" -> wUID
      [] kind = "mem" -> wMinfltS
      [] kind = "net" -> wIFACE

\* the line closes the open section: blank, a repeated marker, or the banner
ClosesSection(kind, line) ==
    \/ line = <<>>
    \/ Contains(line, SectionMarker(kind))
    \/ Contains(line, wLinux)

ResolvedFrom(header_split, name, default, idx) ==
    IF \E j \in 0..(Len(header_split) - 1) : At(header_split, j) = name
    THEN InRange(header_split, idx) /\ At(header_split, idx) = name
    ELSE idx = default

\* C12: the index resolved from a header for %CPU, TID, RSS, IFACE, rxpck/s,
\* txpck/s, rxkB/s and txkB/s is a position whose token equals the column
\* name exactly when the header has one, and the default 9, 4, 8, 2, 3, 4,
\* 5, 6 otherwise; examining a line of the outer scan never raises.
C12_ColumnResolution ==
    [][(pc = "outer" /\ i < Len(lines)) =>
          /\ pc' # "raised"
          /\ pc' = "cpu" =>
                /\ ResolvedFrom(Split(CurLine), wPctCPU, 9, cpu_index')
                /\ ResolvedFrom(Split(CurLine), wTID, 4, tid_index')
          /\ pc' = "mem" => ResolvedFrom(Split(CurLine), wRSS, 8, rss_index')
          /\ pc' = "net" =>
                /\ ResolvedFrom(Split(CurLine), wIFACE, 2, if_index')
                /\ ResolvedFrom(Split(CurLine), wRxpck, 3, rxpck_index')
                /\ ResolvedFrom(Split(CurLine), wTxpck, 4, txpck_index')
                /\ ResolvedFrom(Split(CurLine), wRxkB, 5, rxkb_index')
                /\ ResolvedFrom(Split(CurLine), wTxkB, 6, txkb_index')]_vars

\* a 24-hour log: %CPU resolved to field 8 and TID to field 3, and the row
\* read through them
C12_Witness ==
    /\ fn = "pidstat" /\ pc = "done"
    /\ lines = <<CpuHeader24, CpuRow24(n9, n12_5)>>
    /\ cpu_index = 8 /\ tid_index = 3
    /\ stats.cpu_values = <<125>>
    /\ DOMAIN stats.threads = {n9}

\* C17: every value of the four network sample sequences is >= 0 (a row
\* carrying a negative packet or KiB rate is dropped).
C17_NetworkRatesNonNegative ==
    fn = "network" =>
        \A s \in 1..4 : \A k \in 1..Len(NetValues[s]) : NetValues[s][k] >= 0

\* the permutations of 1..n
Perms(n) == { p \in [1..n -> 1..n] : \A a, b \in 1..n : p[a] = p[b] => a = b }

\* two aggregates carry the same metric keys with the same summary
SameAggregate(x, y) ==
    /\ x.is_none = y.is_none
    /\ \A c \in Categories :
          /\ DOMAIN x[c] = DOMAIN y[c]
          /\ \A k \in DOMAIN x[c] :
                /\ RatEq(x[c][k].mean, y[c][k].mean)
                /\ RatEq(x[c][k].var, y[c][k].var)
                /\ x[c][k].min = y[c][k].min
                /\ x[c][k].max = y[c][k].max
                /\ x[c][k].count = y[c][k].count

\* C19: aggregate_results yields the same metric keys and, per key, the same
\* mean, min, max, count and std for every permutation of the list of runs.
C19_RunOrderIndependent ==
    (fn = "aggregate" /\ pc = "done") =>
        \A p \in Perms(Len(results_list)) :
            SameAggregate(
                aggregate_results([k \in 1..Len(results_list) |-> results_list[p[k]]]),
                aggregated)

\* two different runs were aggregated: 1.0 then 2.0
C19_Witness ==
    /\ fn = "aggregate" /\ pc = "done"
    /\ Len(results_list) = 2
    /\ results_list[1].pidstat["cpu_avg"].val = 10
    /\ results_list[2].pidstat["cpu_avg"].val = 20
    /\ aggregated.pidstat["cpu_avg"].min = 10
    /\ aggregated.pidstat["cpu_avg"].max = 20
    /\ aggregated.pidstat["cpu_avg"].count = 2

\* the keys whose label is followed, at its leftmost occurrence, by a
\* well-formed number
WellFormedKeys ==
    { TimePatterns[n].key : n \in { m \in 1..Len(TimePatterns) :
        LET s == Search(Flatten(lines), TimePatterns[m])
        IN s.found /\ ParseFloat(s.group1).ok } }

\* C14: parse_time_log never raises and returns exactly the fields whose
\* label is followed by a well-formed number; text such as "..." or "1.2.3"
\* after a label leaves the field absent.
C14_TimeLogNeverRaises ==
    (fn = "time" /\ pc # "start") =>
        pc = "done" /\ DOMAIN stats = WellFormedKeys

\* C13: a parser whose log file does not exist returns its initial empty
\* result without raising, and load_results goes on: the result it returns
\* holds the initial empty result for every missing log.
C13_MissingFileIsEmptyResult ==
    /\ [](\A f \in Parsers :
            (fn = f /\ ~file_exists[f]) =>
                /\ pc \in {"entry", "done"}
                /\ stats = InitialStats(f))
    /\ []((caller = "load_results" /\ pc = "returned") =>
            /\ DOMAIN results = { ResultKey(f) : f \in Parsers }
            /\ \A f \in Parsers :
                  ~file_exists[f] => results[ResultKey(f)] = InitialStats(f))
    /\ [][(fn \in Parsers /\ ~file_exists[fn]) =>
            /\ pc = "entry" => pc' = "done"
            /\ pc = "done" => /\ pc' \in {"entry", "returned"}
                              /\ results'[ResultKey(fn)] = InitialStats(fn)]_vars

\* no log of the run directory exists and load_results has returned
C13_Witness ==
    /\ caller = "load_results" /\ pc = "returned"
    /\ file_exists = [f \in Parsers |-> FALSE]
    /\ results = [time_stats |-> <<>>, pidstat |-> PidstatStats0,
                  network |-> NetworkStats0]

\* the pattern matched no run directory: no match, or only non-directories
NoRunDirectory(p) ==
    \A k \in 1..Len(glob_matches[p]) : ~glob_matches[p][k].isdir

\* C16: when either pattern yields no run directory, main makes no call of
\* aggregate_results, print_comparison or plot_comparison, and once both
\* loads have returned it reports the error and exits with status 1;
\* aggregate_results is never called with an empty list.
C16_NoResultsExitsBeforeAggregation ==
    fn = "main" =>
        /\ (argv_len >= 4 /\ \E p \in Patterns : NoRunDirectory(p)) =>
              /\ called = <<>>
              /\ pc \notin {"aggregate", "compare", "summary"}
              /\ pc = "exited" =>
                    /\ exit_status = 1
                    /\ printed \in { <<"no_multicast">>, <<"no_unicast">> }
        /\ \A k \in 1..Len(called) :
              called[k].name = "aggregate_results" => called[k].len > 0

\* the multicast pattern matched only a non-directory, the unicast pattern a
\* run directory: the error was reported and the process left with status 1
C16_Witness ==
    /\ fn = "main" /\ pc = "exited"
    /\ Len(glob_matches["multicast"]) = 1
    /\ ~glob_matches["multicast"][1].isdir
    /\ Len(unicast_results) = 1
    /\ printed = <<"no_multicast">>
    /\ exit_status = 1
    /\ called = <<>>

\* the baseline mean of the metric, 0 when the aggregate has no such key
BaselineMean(metric) ==
    MeanOrZero(unicast_agg, ComparedMetric[metric].category,
               ComparedMetric[metric].key)

\* C18: a metric whose unicast mean is 0, or which the unicast aggregate
\* lacks, gets no verdict in the summary printed by main.
C18_ZeroBaselineNotCompared ==
    (fn = "main" /\ pc = "exited" /\ exit_status = 0) =>
        \A metric \in DOMAIN ComparedMetric :
            BaselineMean(metric).num = 0 => metric \notin DOMAIN summary

\* what the report of a run states: the value and the unit of each Average
\* and Peak line the aggregator reads
Printed(rs) ==
    [avg_cpu |-> Round2(rs.cpu.avg), peak_cpu |-> Round2(rs.cpu.peak),
     avg_memory_mib |-> Round2(Rat(rs.memory.avg.num, rs.memory.avg.den * 1024)),
     peak_memory_mib |-> Round2(Rat(rs.memory.peak.num, rs.memory.peak.den * 1024)),
     avg_packets_received |-> Round2(rs.pkts_recv.avg),
     peak_packets_received |-> Round2(rs.pkts_recv.peak),
     avg_packets_sent |-> Round2(rs.pkts_sent.avg),
     peak_packets_sent |-> Round2(rs.pkts_sent.peak),
     avg_kib_received |-> Round2(rs.kib_recv.avg),
     peak_kib_received |-> Round2(rs.kib_recv.peak),
     avg_kib_sent |-> Round2(rs.kib_sent.avg),
     peak_kib_sent |-> Round2(rs.kib_sent.peak)]

\* C15: whatever run analyze_results.main reports on, parse_server_analysis
\* reads the report without an error and recovers each value as printed, the
\* memory values in MiB
C15_ReportRoundTrip ==
    (fn = "parse_server_analysis")
        => pc = "returned" /\ metrics = Printed(run_stats)

\* a run whose RSS is above 1 GiB, every other metric positive: the Average
\* Memory line carries GiB and the search for MiB finds nothing
C15_Counterexample ==
    /\ fn = "parse_server_analysis"
    /\ pc = "AttributeError"
    /\ run_stats.pidstat_exists /\ run_stats.network_exists
    /\ run_stats.cpu.avg.num > 0
    /\ run_stats.memory = Sample(Rat(1500000, 1), Rat(2000000, 1))
    /\ StartsAt(report, 84, lblAvgMem \o <<" ", "1", ".", "4", "3", " ">> \o uGiB)
    /\ \A k \in {"pkts_recv", "pkts_sent", "kib_recv", "kib_sent"} :
          run_stats[k].avg.num > 0

\* a run folder whose name and whose report can both be parsed
Aggregable(e) ==
    /\ e.is_dir /\ e.has_file
    /\ ~ScenarioOf[e.name].raised
    /\ MetricsOf[e.run].raised = "none"

\* the number of folders of the listing that belong to scenario s
IterationsOf(s) ==
    Cardinality({ k \in 1..Len(folders) :
                    Aggregable(folders[k]) /\ ScenarioOf[folders[k].name].scenario = s })

\* C20: no folder ends server_analysis_aggregator.main: once the folder loop
\* is over, every folder whose name and report can be parsed is counted under
\* its scenario, and once the scenarios are printed each of them is reported
\* with all its iterations, whatever the other folders hold
C20_UnparsableFolderIsSkipped ==
    (fn = "aggregator_main") =>
        /\ pc # "AttributeError"
        /\ pc \in {"scenarios", "done", "ValueError"} =>
              \A k \in 1..Len(folders) :
                 Aggregable(folders[k]) =>
                    LET s == ScenarioOf[folders[k].name].scenario
                    IN /\ s \in DOMAIN scenario_metrics
                       /\ Len(scenario_metrics[s]) = IterationsOf(s)
        /\ pc \in {"done", "ValueError"} =>
              \A k \in 1..Len(folders) :
                 Aggregable(folders[k]) =>
                    \E r \in 1..Len(reported) :
                       /\ reported[r].scenario = ScenarioOf[folders[k].name].scenario
                       /\ reported[r].iterations = IterationsOf(reported[r].scenario)

\* C21: whatever the log, the four network sample sequences have the same
\* length: a row adds one value to each of them or nothing to any of them
C21_NetworkSequencesEqualLength ==
    (fn = "network") =>
        /\ Len(stats.pkts_recv_values) = Len(stats.pkts_sent_values)
        /\ Len(stats.pkts_sent_values) = Len(stats.kib_recv_values)
        /\ Len(stats.kib_recv_values) = Len(stats.kib_sent_values)

\* the kind of section a line opens as a header of the running parser, or
\* "none"
HeaderKind(line) ==
    IF fn = "network" THEN (IF IsNetHeader(line) THEN "net" ELSE "none")
    ELSE IF IsCpuHeader(line) THEN "cpu"
    ELSE IF TimestampMatch(line) /\ Contains(line, wMinfltS) THEN "mem"
    ELSE "none"

\* a line that is neither blank nor a banner nor a line with a header marker
PlainRow(line) ==
    /\ line # <<>>
    /\ ~Contains(line, wLinux)
    /\ ~Contains(line, wUID) /\ ~Contains(line, wMinflt) /\ ~Contains(line, wIFACE)

\* the header that line k lies under (as a set: empty or one position): the
\* nearest header before it, only data rows in between
HeaderOver(k) ==
    { h \in 1..(k - 1) :
        /\ HeaderKind(Strip(lines[h])) # "none"
        /\ \A m \in (h + 1)..k : PlainRow(Strip(lines[m])) }

\* the column indices in force are the ones resolved from header line hdr
IndicesFrom(kind, hdr) ==
    CASE kind = "cpu" ->
            /\ cpu_index = LocateLast(Split(hdr), wPctCPU, DefaultCpuIndex)
            /\ tid_index = LocateLast(Split(hdr), wTID, DefaultTidIndex)
      [] kind = "mem" -> rss_index = LocateFirst(Split(hdr), wRSS, DefaultRssIndex)
      [] kind = "net" ->
            /\ if_index = LocateLast(Split(hdr), wIFACE, DefaultIfIndex)
            /\ rxpck_index = LocateLast(Split(hdr), wRxpck, DefaultRxpckIndex)
            /\ txpck_index = LocateLast(Split(hdr), wTxpck, DefaultTxpckIndex)
            /\ rxkb_index = LocateLast(Split(hdr), wRxkB, DefaultRxkbIndex)
            /\ txkb_index = LocateLast(Split(hdr), wTxkB, DefaultTxkbIndex)

\* C22: when a parser looks at a data row that lies under a header, it is in
\* the data loop of that header's kind with the indices of that header, also
\* when the header came right after the rows of the section before
C22_RowsUnderNearestHeader ==
    (/\ fn \in {"pidstat", "network"}
     /\ pc \in {"outer", "cpu", "mem", "net"}
     /\ i < Len(lines))
        => \A h \in HeaderOver(i + 1) :
              LET hdr == Strip(lines[h]) IN
              /\ pc = HeaderKind(hdr)
              /\ IndicesFrom(HeaderKind(hdr), hdr)

\* the test by which a line opens a section of the given kind
Opens(kind, line) ==
    CASE kind = "cpu" -> IsCpuHeader(line)
      [] kind = "mem" -> IsMemHeader(line)
      [] kind = "net" -> IsNetHeader(line)

\* the header lines of the open section's kind met so far; the last of them
\* opened the section (a later one would have closed it)
OpenersSoFar == { h \in 1..i : h <= Len(lines) /\ Opens(pc, Strip(lines[h])) }

\* C23: in every section the column indices are the ones resolved from that
\* section's own header, each index the header does not name being the
\* default: nothing stays from the header of an earlier section
C23_IndicesOfOwnHeader ==
    (fn \in {"pidstat", "network"} /\ pc \in {"cpu", "mem", "net"})
        => /\ OpenersSoFar # {}
           /\ LET h == CHOOSE a \in OpenersSoFar : \A b \in OpenersSoFar : b <= a
              IN IndicesFrom(pc, Strip(lines[h]))

\* a 24-hour CPU header (%CPU at 8, TID at 3), then a section whose header
\* names neither column: the defaults are in force again
C23_Witness ==
    /\ fn = "pidstat" /\ pc = "cpu" /\ i = 3
    /\ lines = <<CpuHeader24, BlankLine, CpuHeaderInexact>>
    /\ LocateLast(Split(Strip(CpuHeader24)), wPctCPU, DefaultCpuIndex) # DefaultCpuIndex
    /\ cpu_index = DefaultCpuIndex /\ tid_index = DefaultTidIndex

\* a is a subsequence of b
RECURSIVE IsSubseq(_, _)
IsSubseq(a, b) ==
    IF a = <<>> THEN TRUE
    ELSE IF b = <<>> THEN FALSE
    ELSE IF Head(a) = Head(b) THEN IsSubseq(Tail(a), Tail(b))
    ELSE IsSubseq(a, Tail(b))

\* the number of samples kept in the entries of the threads ts
RECURSIVE ThreadSamples(_)
ThreadSamples(ts) ==
    IF ts = {} THEN 0
    ELSE LET t == CHOOSE x \in ts : TRUE
         IN Len(stats.threads[t].cpu) + ThreadSamples(ts \ {t})

\* the samples of thread t so far, none when it has no entry
SamplesOf(t) == IF t \in DOMAIN stats.threads THEN stats.threads[t].cpu ELSE <<>>

\* the CPU data loop looks at a row whose CPU value is accepted
AcceptedCpuRow ==
    /\ fn = "pidstat" /\ pc = "cpu" /\ i < Len(lines)
    /\ ~CpuSectionEnds(CurLine)
    /\ Len(RowParts) >= 9
    /\ InRange(RowParts, cpu_index)
    /\ ParseFloat(At(RowParts, cpu_index)).ok
    /\ 0 <= ParseFloat(At(RowParts, cpu_index)).val
    /\ ParseFloat(At(RowParts, cpu_index)).val <= 2000

\* ... and that has a TID field other than "-"
ThreadCpuRow ==
    AcceptedCpuRow /\ InRange(RowParts, tid_index) /\ At(RowParts, tid_index) # wDash

\* C24: the per-thread entries hold exactly the accepted CPU samples of the
\* rows with that TID: an accepted row with TID t other than "-" appends its
\* value to t's samples (making the entry if there is none), nothing else
\* changes any entry; so every entry is a non-empty subsequence of the CPU
\* samples, the entries together hold at most as many samples as there are
\* CPU samples, and on return every entry has its cpu_avg and cpu_peak
C24_PerThreadEntries ==
    /\ [](fn = "pidstat" =>
            /\ \A t \in DOMAIN stats.threads :
                  /\ t # wDash
                  /\ stats.threads[t].cpu # <<>>
                  /\ IsSubseq(stats.threads[t].cpu, stats.cpu_values)
                  /\ pc = "done" =>
                        /\ stats.threads[t].has_avg
                        /\ stats.threads[t].cpu_avg = Avg(stats.threads[t].cpu)
                        /\ stats.threads[t].cpu_peak = SeqMax(stats.threads[t].cpu)
            /\ ThreadSamples(DOMAIN stats.threads) <= Len(stats.cpu_values))
    /\ [][fn = "pidstat" =>
            IF ThreadCpuRow /\ i' = i + 1
            THEN LET t == At(RowParts, tid_index)
                     v == ParseFloat(At(RowParts, cpu_index)).val
                 IN /\ DOMAIN stats'.threads = DOMAIN stats.threads \cup {t}
                    /\ stats'.threads[t].cpu = Append(SamplesOf(t), v)
                    /\ \A u \in DOMAIN stats.threads \ {t} :
                          stats'.threads[u].cpu = stats.threads[u].cpu
            ELSE /\ DOMAIN stats'.threads = DOMAIN stats.threads
                 /\ \A u \in DOMAIN stats.threads :
                       stats'.threads[u].cpu = stats.threads[u].cpu]_vars

\* thread 7 has an entry with its two samples; the row without a thread id
\* counts for the process only
C24_Witness ==
    /\ fn = "pidstat" /\ pc = "done"
    /\ lines = <<CpuHeader, CpuRow(n7, n45_5), CpuRow(wDash, n200_0)>>
    /\ DOMAIN stats.threads = {n7}
    /\ stats.threads[n7].cpu = <<455>>
    /\ stats.cpu_values = <<455, 2000>>
    /\ stats.threads[n7].has_avg

\* the scenarios of the given type with the given client count
ScenariosOf(type, client_number) ==
    { s \in DOMAIN scenario_metrics :
        /\ ClientSearch(s).group1 = type
        /\ DigitsVal(ClientSearch(s).group2) = client_number }

\* list, of one type, holds at every position the average of field over the
\* iterations of that type's scenario with the client count of the position
AlignedWithClients(list, type, field) ==
    /\ Len(list) = Len(number_of_clients)
    /\ \A k \in 1..Len(list) :
          \E s \in ScenariosOf(type, number_of_clients[k]) :
             list[k] = calculate_averages(scenario_metrics[s])[field]

\* C25: when main comes to the plots, the unicast and the multicast list of
\* every plot are as long as the list of client counts and hold at each
\* position the averages of the scenario with that position's client count
C25_PlotListsAligned ==
    AtPlots =>
        /\ AlignedWithClients(unicast_avg_cpu, wUnicast, "avg_cpu")
        /\ AlignedWithClients(multicast_avg_cpu, wMulticast, "avg_cpu")
        /\ AlignedWithClients(unicast_avg_mem, wUnicast, "avg_memory_mib")
        /\ AlignedWithClients(multicast_avg_mem, wMulticast, "avg_memory_mib")
        /\ AlignedWithClients(unicast_avg_sent, wUnicast, "avg_kib_sent")
        /\ AlignedWithClients(multicast_avg_sent, wMulticast, "avg_kib_sent")

\* the folders of the listing whose name gives scenario s and whose report
\* was parsed
IterationFolders(s) ==
    { k \in 1..Len(folders) :
        Aggregable(folders[k]) /\ ScenarioOf[folders[k].name].scenario = s }

\* the sum of one field over the reports of the folders ks
RECURSIVE FieldSum(_, _)
FieldSum(ks, field) ==
    IF ks = {} THEN 0
    ELSE LET k == CHOOSE x \in ks : TRUE
         IN MetricsOf[folders[k].run].metrics[field] + FieldSum(ks \ {k}, field)

\* C26: every scenario key holds at least one parsed report, so
\* calculate_averages never divides by zero; a reported scenario shows as
\* iterations the number of its folders whose report parsed, and as every
\* average the sum of the field over those reports divided by that number
C26_AveragesOverParsedIterations ==
    (fn = "aggregator_main") =>
        /\ \A s \in DOMAIN scenario_metrics : scenario_metrics[s] # <<>>
        /\ \A r \in 1..Len(reported) :
              LET ks == IterationFolders(reported[r].scenario) IN
              /\ reported[r].iterations = Cardinality(ks)
              /\ reported[r].iterations >= 1
              /\ \A f \in MetricFields :
                    reported[r].avg_metrics[f] = Rat(FieldSum(ks, f), Cardinality(ks))

\* two folders of one scenario, the report of the second cannot be parsed:
\* the scenario is reported with one iteration and the values of the first
C26_Witness ==
    /\ fn = "aggregator_main" /\ pc = "scenarios"
    /\ folders = <<Entry(nMulticast5Iter1, TRUE, TRUE, RunB),
                   Entry(nMulticast5Iter2, TRUE, TRUE, RunGiB)>>
    /\ errors = <<nMulticast5Iter2>>
    /\ Len(reported) = 1
    /\ reported[1].iterations = 1
    /\ reported[1].avg_metrics["avg_cpu"] = Rat(2000, 1)

====
